---- MODULE Spec2Model ----
(***************************************************************************)
(* awsx2: resolution-and-tunnel-lifecycle engine.                          *)
(*                                                                         *)
(* SpecTunnel   the tunnel supervisor (tunnel.rs) driven by the entry      *)
(*              points that start a tunnel (main.rs run_cli, the TUI       *)
(*              wizards of tui/pages/tunnels.rs), over an OS process table *)
(*              and a local port space.                                    *)
(* SpecPath     path resolution (aws.rs resolve_dns_to_target, and the     *)
(*              tunnel-url flow of main.rs / tunnels.rs) over an inventory *)
(*              and DNS answers drawn from bounded sets.                   *)
(* SpecUrl      the same operations over the shapes of the input URL.      *)
(* SpecHop      the load-balancer target loop and the hop selector         *)
(*              (try_alb_tunnel, try_alb_tunnel_bg, find_ssm_hop_by_sgs).  *)
(* SpecApp      the Tunnels page of the TUI (tui/app.rs, tui/pages/         *)
(*              tunnels.rs, tui/pages/tools.rs): the foreground event loop, *)
(*              its worker threads and the channel between them.           *)
(***************************************************************************)
EXTENDS Integers, Sequences, FiniteSets, Bags, TLC

(***************************************************************************)
(* Bounds of the model.                                                    *)
(***************************************************************************)
\* process ids handed out by the OS during one run of the model
MaxPid == 4
\* online bastions returned by one find_bastions call
MaxBastions == 2
\* seconds of wall-clock time one failed port poll stands for
TickSeconds == 5
\* instances one describe-instances call returns
MaxInst == 2
\* addresses one DNS lookup returns
MaxAddrs == 2
\* healthy targets one load balancer has
MaxTargets == 2

(***************************************************************************)
(* Program constants.                                                      *)
(***************************************************************************)
\* wait_and_probe timeout of the single-attempt starts (Duration::from_secs(20))
WaitTimeoutSingle == 20
\* wait_and_probe timeout inside the multi-bastion loop (Duration::from_secs(10))
WaitTimeoutMulti == 10
\* remote port derived from an https:// input
HttpsPort == 443
\* remote port derived from any other input
HttpPort == 80

LPorts == {8080}
RPorts == {8000}
Latencies == {0, 5}

NoHost == "none"
NoLatency == -1
\* listener values of a local port: nobody, a foreign service that answers,
\* a foreign service that accepts and stays silent; a positive value is the
\* pid of the forwarding plugin bound to the port
Free == 0
ForeignLive == -1
ForeignSilent == -2

CliEntries == {"cli_tunnel", "cli_tunnel_url", "cli_tunnel_dns", "cli_tunnel_remote"}
TuiEntries == {"tui_instance", "tui_url", "tui_bastion"}
Entries == CliEntries \cup TuiEntries
UrlEntries == {"cli_tunnel_url", "tui_url"}
DirectEntries == {"cli_tunnel", "tui_instance"}
RemoteEntries == {"cli_tunnel_remote", "tui_bastion"}

VARIABLES
    procs,      \* the OS process table: the forwarding processes in it
    listener,   \* local port -> who accepts connections on it
    nextPid,    \* next process id the OS hands out
    op,         \* the start operation in progress
    attempts,   \* history: the spawned attempts of the operation, in order
    result,     \* what the operation returned
    detected,   \* what the last detect_tunnels call returned
    fresh,      \* a start has just returned a handle and nothing ran since
    input,      \* the URL or hostname given by the user
    dns,        \* the addresses the local resolver returns for the input's host
    inv,        \* the instances of the account, in describe-instances order
    alb,        \* the load balancer of the account, as the tunnel-url flow sees it
    path,       \* what path resolution returned
    lb,         \* the matched load balancer: its target groups and their targets
    targets,    \* the healthy targets of the matched load balancer, in order
    hs,         \* the state of the load-balancer target loop
    app,        \* the App of the TUI: its tunnel list, selection and popup
    chan,       \* the BgMessage channel from the workers to the event loop
    workers,    \* the worker threads alive, a bag of their states
    fg,         \* the blocking calls the last foreground handler made
    reqs        \* the tunnel starts requested at the same time, by request

tunnelVars == <<procs, listener, nextPid, op, attempts, result, detected, fresh>>
pathVars == <<input, dns, inv, alb, path>>
hopVars == <<lb, targets, hs>>
appVars == <<app, chan, workers, fg, reqs>>
vars == <<procs, listener, nextPid, op, attempts, result, detected, fresh,
          input, dns, inv, alb, path, lb, targets, hs, app, chan, workers, fg,
          reqs>>

(***************************************************************************)
(* models.rs                                                               *)
(***************************************************************************)
TunnelProcess(pid, lp, rp, host, inst, open, lat) ==
    [pid |-> pid, local_port |-> lp, remote_port |-> rp, remote_host |-> host,
     instance_id |-> inst, port_open |-> open, latency_ms |-> lat]

NoHandle == TunnelProcess(0, 0, 0, NoHost, 0, FALSE, NoLatency)

\* the outcomes of a start operation
NoResult == [kind |-> "none", err |-> "", count |-> 0, h |-> NoHandle]
PortInUse == [kind |-> "PortInUse", err |-> "", count |-> 0, h |-> NoHandle]
Failure(e, n) == [kind |-> "Err", err |-> e, count |-> n, h |-> NoHandle]
Started(h) == [kind |-> "Handle", err |-> "", count |-> 0, h |-> h]

(***************************************************************************)
(* The process table.                                                      *)
(***************************************************************************)
\* the command line make_ssm_cmd builds, as ps prints it (the --parameters
\* JSON is kept in the record's lport, rport and host fields)
make_ssm_cmd(pid, inst, host, lp, rp) ==
    [pid |-> pid, ppid |-> 0,
     argv |-> <<"aws", "ssm", "start-session", "--target", "--document-name", "--parameters">>,
     target |-> inst, host |-> host, lport |-> lp, rport |-> rp, live |-> FALSE]

\* the session-manager-plugin child the aws CLI launches for a session
PluginOf(p, pid, live) ==
    [pid |-> pid, ppid |-> p.pid, argv |-> <<"session-manager-plugin">>,
     target |-> p.target, host |-> p.host, lport |-> p.lport, rport |-> p.rport,
     live |-> live]

Pids(ps) == {p.pid : p \in ps}

test_port(port) == listener[port] # Free

\* whether a probe through the port gets any byte or a close back within 5 s
Responds(port) ==
    LET l == listener[port] IN
    IF l = Free THEN FALSE
    ELSE IF l < 0 THEN l = ForeignLive
    ELSE \E q \in procs : q.pid = l /\ q.live

\* SIGTERM to pid: the signalled process leaves the process table
stop_tunnel_noop(pid, ps) == ps
stop_tunnel(pid, ps) == {p \in ps : p.pid # pid}

\* a port whose listening process is gone is free again
Listeners(ps) ==
    [port \in LPorts |->
        IF listener[port] > 0 /\ listener[port] \notin Pids(ps) THEN Free
        ELSE listener[port]]


(***************************************************************************)
(* tunnel.rs wait_and_probe: the cleanup of its two failure branches.      *)
(***************************************************************************)
\* wait_for_port timed out: stop_tunnel(pid), return Err(PortClosed)
OnPortTimeout_leak(pid, ps) == ps
OnPortTimeout(pid, ps) == stop_tunnel(pid, ps)

\* probe_remote returned None: stop_tunnel(pid), return Err(Tunnel(..))
OnNoResponse_leak(pid, ps) == ps
OnNoResponse(pid, ps) == stop_tunnel(pid, ps)

\* the timeout the caller hands to wait_and_probe
Timeout(mode) == IF mode = "multi" THEN WaitTimeoutMulti ELSE WaitTimeoutSingle

IdleOp ==
    [entry |-> "none", pc |-> "idle", mode |-> "none", lport |-> 0, rport |-> 0,
     host |-> NoHost, cands |-> <<>>, idx |-> 0, pid |-> 0, elapsed |-> 0,
     busy |-> FALSE, err |-> ""]

(***************************************************************************)
(* The values the resolution variables hold while no resolution is modelled *)
(* (the tunnel supervisor takes its path as given).                        *)
(***************************************************************************)
NoInput == [scheme |-> "", host |-> "", port |-> "", path |-> ""]
NoDns == [local |-> <<>>, ext |-> <<>>]
NoAlb == [ips |-> {}, hop |-> FALSE]
NoPath ==
    [flow |-> "none", fail |-> "none", kind |-> "none", inst |-> 0, relay |-> 0,
     cands |-> <<>>, host |-> <<>>, port |-> 0, err |-> ""]
IdleHop ==
    [flow |-> "none", pc |-> "idle", idx |-> 0, target |-> 0, hop |-> 0,
     port |-> 0, fail |-> "none", out |-> "none",
     call |-> [made |-> FALSE, allowed |-> <<>>, ok |-> TRUE, ret |-> 0]]

PathIdle ==
    /\ input = NoInput
    /\ dns = NoDns
    /\ inv = <<>>
    /\ alb = NoAlb
    /\ path = NoPath

\* no target group was read
NoLb == [tgs |-> <<>>, remote_port |-> 0, fetched |-> "no"]

HopIdle ==
    /\ lb = NoLb
    /\ targets = <<>>
    /\ hs = IdleHop

\* Popup::None, and App::new(): no tunnel known, nothing selected, no popup
NoPopup == [kind |-> "None", tag |-> "", idx |-> 0, named |-> <<>>, value |-> <<>>]
\* WizardBuf::default()
NoWizardBuf ==
    [pattern |-> <<>>, local_port |-> <<>>, remote_port |-> <<>>, url |-> <<>>,
     bastion |-> <<>>, host |-> <<>>]
NewApp ==
    [tab |-> "Instances", instances |-> <<>>, instance_selected |-> 0,
     instance_filter |-> <<>>, instance_filter_active |-> FALSE,
     tunnels |-> <<>>, tunnel_selected |-> 0, popup |-> NoPopup,
     wizard_buf |-> NoWizardBuf, quit |-> FALSE]

AppIdle ==
    /\ app = NewApp
    /\ chan = <<>>
    /\ workers = EmptyBag
    /\ fg = {}
    /\ reqs = <<>>

TunnelIdle ==
    /\ procs = {}
    /\ listener = [p \in LPorts |-> Free]
    /\ nextPid = 1
    /\ op = IdleOp
    /\ attempts = <<>>
    /\ result = NoResult
    /\ detected = [handles |-> <<>>, ran |-> FALSE, after |-> FALSE]
    /\ fresh = FALSE

TunnelInit ==
    /\ procs = {}
    /\ listener \in [LPorts -> {Free, ForeignLive, ForeignSilent}]
    /\ nextPid = 1
    /\ op = IdleOp
    /\ attempts = <<>>
    /\ result = NoResult
    /\ detected = [handles |-> <<>>, ran |-> FALSE, after |-> FALSE]
    /\ fresh = FALSE
    /\ PathIdle
    /\ HopIdle
    /\ AppIdle

\* the operation returns r to its caller
Return(r) ==
    /\ result' = r
    /\ fresh' = (r.kind = "Handle")

(***************************************************************************)
(* Entry points.  main.rs run_cli tests the local port first and returns   *)
(* when it is open; the wizards of tunnels.rs handle_input go straight to  *)
(* the start function on a worker thread.                                  *)
(***************************************************************************)
ChecksPortFirst(e) == e \in CliEntries

Begin(e, lp, rp) ==
    /\ op.pc = "idle"
    /\ IF ChecksPortFirst(e) /\ test_port(lp)
       THEN /\ op' = [op EXCEPT !.entry = e, !.pc = "done", !.lport = lp,
                                !.rport = rp, !.busy = TRUE]
            /\ Return(PortInUse)
       ELSE /\ op' = [op EXCEPT !.entry = e, !.pc = "resolve", !.lport = lp,
                                !.rport = rp, !.busy = test_port(lp)]
            /\ UNCHANGED <<result, fresh>>
    /\ UNCHANGED <<procs, listener, nextPid, attempts, detected>>
    /\ UNCHANGED <<pathVars, hopVars, appVars>>

\* start_tunnel_by_pattern / start_remote_tunnel_via_pattern: find_instance_by_name
ResolvePattern ==
    /\ op.pc = "resolve"
    /\ op.entry \in DirectEntries \cup RemoteEntries
    /\ \/ \E e \in {"AwsCli", "NoInstance", "MultipleInstances"} :
            /\ op' = [op EXCEPT !.pc = "done"]
            /\ Return(Failure(e, 0))
       \/ /\ op' = [op EXCEPT !.pc = "spawn", !.mode = "single", !.cands = <<1>>,
                              !.idx = 1,
                              !.host = IF op.entry \in RemoteEntries THEN "h" ELSE NoHost]
          /\ UNCHANGED <<result, fresh>>
    /\ UNCHANGED <<procs, listener, nextPid, attempts, detected>>
    /\ UNCHANGED <<pathVars, hopVars, appVars>>

\* start_dns_tunnel: resolve_dns_to_target gives Ec2 or RemoteViaBastion
ResolveDns ==
    /\ op.pc = "resolve"
    /\ op.entry = "cli_tunnel_dns"
    /\ \/ \E e \in {"AwsCli", "NoBastions"} :
            /\ op' = [op EXCEPT !.pc = "done"]
            /\ Return(Failure(e, 0))
       \/ \E h \in {NoHost, "h"} :
            /\ op' = [op EXCEPT !.pc = "spawn", !.mode = "single", !.cands = <<1>>,
                                !.idx = 1, !.host = h]
            /\ UNCHANGED <<result, fresh>>
    /\ UNCHANGED <<procs, listener, nextPid, attempts, detected>>
    /\ UNCHANGED <<pathVars, hopVars, appVars>>

\* try_alb_tunnel / try_alb_tunnel_bg: a hop for a load-balancer target, or none
ResolveAlb ==
    /\ op.pc = "resolve"
    /\ op.entry \in UrlEntries
    /\ \/ op' = [op EXCEPT !.pc = "bastions"]
       \/ \E tp \in RPorts :
            op' = [op EXCEPT !.pc = "spawn", !.mode = "alb", !.cands = <<1>>,
                             !.idx = 1, !.host = "t", !.rport = tp]
    /\ UNCHANGED <<procs, listener, nextPid, attempts, result, detected, fresh>>
    /\ UNCHANGED <<pathVars, hopVars, appVars>>

\* start_url_tunnel_via_any_bastion: find_bastions, keep the online ones
FindBastions ==
    /\ op.pc = "bastions"
    /\ \/ /\ op' = [op EXCEPT !.pc = "done"]
          /\ Return(Failure("AwsCli", 0))
       \/ /\ op' = [op EXCEPT !.pc = "done"]
          /\ Return(Failure("NoBastions", 0))
       \/ \E n \in 1..MaxBastions, https \in BOOLEAN :
            /\ op' = [op EXCEPT !.pc = "spawn", !.mode = "multi",
                                !.cands = [i \in 1..n |-> i], !.idx = 1, !.host = "h",
                                !.rport = IF https THEN HttpsPort ELSE HttpPort]
            /\ UNCHANGED <<result, fresh>>
    /\ UNCHANGED <<procs, listener, nextPid, attempts, detected>>
    /\ UNCHANGED <<pathVars, hopVars, appVars>>

(***************************************************************************)
(* Spawn, wait_and_probe and the callers' handling of its result.          *)
(***************************************************************************)
\* try_alb_tunnel's Err reaches run_cli's `_ =>` arm, which falls back to the
\* bastions; try_alb_tunnel_bg returns the start's result as it is
AlbFailureFallsBack == op.mode = "alb" /\ op.entry = "cli_tunnel_url"

\* wait_and_probe returned Err(e) to the start function that called it
FailAttempt(e) ==
    IF op.mode = "multi"
    THEN /\ op' = [op EXCEPT !.pc = "retry", !.err = e]
         /\ UNCHANGED <<result, fresh>>
    ELSE IF AlbFailureFallsBack
    THEN /\ op' = [op EXCEPT !.pc = "bastions", !.err = e]
         /\ UNCHANGED <<result, fresh>>
    ELSE /\ op' = [op EXCEPT !.pc = "done", !.err = e]
         /\ Return(Failure(e, 0))

SetOutcome(o) ==
    attempts' = [attempts EXCEPT ![Len(attempts)].outcome = o]

\* start_direct_tunnel / start_remote_tunnel: Command::spawn succeeds
SpawnOk ==
    /\ op.pc = "spawn"
    /\ nextPid <= MaxPid
    /\ procs' = procs \cup
          {make_ssm_cmd(nextPid, op.cands[op.idx], op.host, op.lport, op.rport)}
    /\ nextPid' = nextPid + 1
    /\ op' = [op EXCEPT !.pc = "wait", !.pid = nextPid, !.elapsed = 0]
    /\ attempts' = Append(attempts,
          [pid |-> nextPid, relay |-> op.cands[op.idx], mode |-> op.mode,
           opened |-> FALSE, outcome |-> "running"])
    /\ UNCHANGED <<listener, result, detected, fresh>>
    /\ UNCHANGED <<pathVars, hopVars, appVars>>

\* Command::spawn fails: the `?` returns the Io error
SpawnFail ==
    /\ op.pc = "spawn"
    /\ IF AlbFailureFallsBack
       THEN /\ op' = [op EXCEPT !.pc = "bastions", !.err = "Io"]
            /\ UNCHANGED <<result, fresh>>
       ELSE /\ op' = [op EXCEPT !.pc = "done", !.err = "Io"]
            /\ Return(Failure("Io", 0))
    /\ UNCHANGED <<procs, listener, nextPid, attempts, detected>>
    /\ UNCHANGED <<pathVars, hopVars, appVars>>

\* wait_for_port: test_port succeeded inside the timeout
WaitOpen ==
    /\ op.pc = "wait"
    /\ op.elapsed < Timeout(op.mode)
    /\ test_port(op.lport)
    /\ op' = [op EXCEPT !.pc = "probe"]
    /\ attempts' = [attempts EXCEPT ![Len(attempts)].opened = TRUE]
    /\ UNCHANGED <<procs, listener, nextPid, result, detected, fresh>>
    /\ UNCHANGED <<pathVars, hopVars, appVars>>

\* wait_for_port: test_port failed, sleep and poll again
WaitSleep_noclock ==
    /\ op.pc = "wait"
    /\ op.elapsed < Timeout(op.mode)
    /\ ~test_port(op.lport)
    /\ UNCHANGED vars
WaitSleep ==
    /\ op.pc = "wait"
    /\ op.elapsed < Timeout(op.mode)
    /\ ~test_port(op.lport)
    /\ op' = [op EXCEPT !.elapsed = op.elapsed + TickSeconds]
    /\ UNCHANGED <<procs, listener, nextPid, attempts, result, detected, fresh>>
    /\ UNCHANGED <<pathVars, hopVars, appVars>>

\* wait_for_port: the timeout elapsed, Err(PortClosed)
WaitTimeout ==
    /\ op.pc = "wait"
    /\ op.elapsed >= Timeout(op.mode)
    /\ procs' = OnPortTimeout(op.pid, procs)
    /\ listener' = Listeners(procs')
    /\ SetOutcome("PortClosed")
    /\ FailAttempt("PortClosed")
    /\ UNCHANGED <<nextPid, detected>>
    /\ UNCHANGED <<pathVars, hopVars, appVars>>

\* Ok(TunnelProcess { pid, .., port_open: true, latency_ms: Some(latency_ms) })
ActiveHandle_unprobed(ms) ==
    TunnelProcess(op.pid, op.lport, op.rport, op.host, op.cands[op.idx], TRUE, NoLatency)
ActiveHandle(ms) ==
    TunnelProcess(op.pid, op.lport, op.rport, op.host, op.cands[op.idx], TRUE, ms)

\* probe_remote: Some(ms)
ProbeOk ==
    /\ op.pc = "probe"
    /\ Responds(op.lport)
    /\ \E ms \in Latencies :
         /\ Return(Started(ActiveHandle(ms)))
    /\ op' = [op EXCEPT !.pc = "done"]
    /\ SetOutcome("ok")
    /\ UNCHANGED <<procs, listener, nextPid, detected>>
    /\ UNCHANGED <<pathVars, hopVars, appVars>>

\* probe_remote: None (no connection, or nothing read within the window)
ProbeFail ==
    /\ op.pc = "probe"
    /\ ~Responds(op.lport)
    /\ procs' = OnNoResponse(op.pid, procs)
    /\ listener' = Listeners(procs')
    /\ SetOutcome("RemoteUnreachable")
    /\ FailAttempt("RemoteUnreachable")
    /\ UNCHANGED <<nextPid, detected>>
    /\ UNCHANGED <<pathVars, hopVars, appVars>>

\* the message of the multi-bastion loop's final error names online_bastions.len()
AllFailedCount_short(cands) == Len(cands) - 1
AllFailedCount(cands) == Len(cands)

\* the bastion the loop turns to after the idx-th one failed
NextBastion_skip(idx) == idx + 2
NextBastion(idx) == idx + 1

\* start_url_tunnel_via_any_bastion, the Err arm: stop_tunnel(pid), sleep, then
\* the next bastion, or the aggregate failure after the last one
MultiRetry ==
    /\ op.pc = "retry"
    /\ procs' = stop_tunnel(op.pid, procs)
    /\ listener' = Listeners(procs')
    /\ IF NextBastion(op.idx) <= Len(op.cands)
       THEN /\ op' = [op EXCEPT !.pc = "spawn", !.idx = NextBastion(op.idx)]
            /\ UNCHANGED <<result, fresh>>
       ELSE /\ op' = [op EXCEPT !.pc = "done"]
            /\ Return(Failure("AllBastionsFailed", AllFailedCount(op.cands)))
    /\ UNCHANGED <<nextPid, attempts, detected>>
    /\ UNCHANGED <<pathVars, hopVars, appVars>>

(***************************************************************************)
(* The environment: the aws CLI launches its session-manager-plugin child, *)
(* which binds the local port; a plugin whose parent was signalled may     *)
(* linger or exit.                                                         *)
(***************************************************************************)
IsAws(p) == p.argv[1] = "aws"

EnvPluginUp ==
    /\ nextPid <= MaxPid
    /\ \E p \in procs, live \in BOOLEAN :
         /\ IsAws(p)
         /\ ~\E q \in procs : q.ppid = p.pid
         /\ listener[p.lport] = Free
         /\ procs' = procs \cup {PluginOf(p, nextPid, live)}
         /\ listener' = [listener EXCEPT ![p.lport] = nextPid]
    /\ nextPid' = nextPid + 1
    /\ fresh' = FALSE
    /\ UNCHANGED <<op, attempts, result, detected>>
    /\ UNCHANGED <<pathVars, hopVars, appVars>>

EnvOrphanExit ==
    /\ \E q \in procs :
         /\ ~IsAws(q)
         /\ q.ppid \notin Pids(procs)
         /\ procs' = procs \ {q}
         /\ listener' = Listeners(procs')
    /\ fresh' = FALSE
    /\ UNCHANGED <<nextPid, op, attempts, result, detected>>
    /\ UNCHANGED <<pathVars, hopVars, appVars>>

(***************************************************************************)
(* tunnel.rs detect_tunnels / parse_tunnel_line                            *)
(***************************************************************************)
\* line.contains("session-manager-plugin")
HasMarker(p) == \E i \in DOMAIN p.argv : p.argv[i] = "session-manager-plugin"

\* the handle parse_tunnel_line builds for a process line, <<>> when it
\* extracts no non-zero local port
parse_tunnel_line_assumeopen(p, ms) ==
    IF p.lport = 0 THEN <<>>
    ELSE LET open == TRUE IN
         <<TunnelProcess(p.pid, p.lport, p.rport, p.host, p.target, open,
              IF open /\ Responds(p.lport) THEN ms ELSE NoLatency)>>
parse_tunnel_line(p, ms) ==
    IF p.lport = 0 THEN <<>>
    ELSE LET open == test_port(p.lport) IN
         <<TunnelProcess(p.pid, p.lport, p.rport, p.host, p.target, open,
              IF open /\ Responds(p.lport) THEN ms ELSE NoLatency)>>

\* the lines of ps, in pid order, from pid k on
RECURSIVE ScanPs(_, _, _)
ScanPs(k, last, ms) ==
    IF k > last THEN <<>>
    ELSE LET here == {p \in procs : p.pid = k /\ HasMarker(p)} IN
         (IF here = {} THEN <<>> ELSE parse_tunnel_line(CHOOSE p \in here : TRUE, ms))
         \o ScanPs(k + 1, last, ms)

detect_tunnels(ms) == ScanPs(1, nextPid - 1, ms)

\* detect_tunnels run by the caller once the start has returned
Detect ==
    /\ op.pc = "done"
    /\ \E ms \in Latencies :
         detected' = [handles |-> detect_tunnels(ms), ran |-> TRUE, after |-> fresh]
    /\ UNCHANGED <<procs, listener, nextPid, op, attempts, result, fresh>>
    /\ UNCHANGED <<pathVars, hopVars, appVars>>

\* the process ids a list of handles names
HandlePids(ts) == {ts[i].pid : i \in DOMAIN ts}

NotDetected == [handles |-> <<>>, ran |-> FALSE, after |-> FALSE]

\* the next invocation (a new command line, or the next wizard run)
Reset ==
    /\ op.pc = "done"
    /\ op' = IdleOp
    /\ attempts' = <<>>
    /\ result' = NoResult
    /\ detected' = NotDetected
    /\ fresh' = FALSE
    /\ UNCHANGED <<procs, listener, nextPid>>
    /\ UNCHANGED <<pathVars, hopVars, appVars>>

TunnelNext ==
    \/ \E e \in Entries, lp \in LPorts, rp \in RPorts : Begin(e, lp, rp)
    \/ ResolvePattern
    \/ ResolveDns
    \/ ResolveAlb
    \/ FindBastions
    \/ SpawnOk
    \/ SpawnFail
    \/ WaitOpen
    \/ WaitSleep
    \/ WaitTimeout
    \/ ProbeOk
    \/ ProbeFail
    \/ MultiRetry
    \/ EnvPluginUp
    \/ EnvOrphanExit
    \/ Detect
    \/ Reset

SpecTunnel == TunnelInit /\ [][TunnelNext]_vars

(***************************************************************************)
(* Claims about the tunnel supervisor.                                     *)
(***************************************************************************)
\* the attempts made by the multi-bastion loop, in order
MultiAttempts == SelectSeq(attempts, LAMBDA a : a.mode = "multi")

FailedOutcomes == {"PortClosed", "RemoteUnreachable"}

\* whether the caller of the start function that made the attempt swallows
\* its failure and goes on (the multi-bastion loop, run_cli after try_alb_tunnel)
Absorbed(a) == a.mode = "multi" \/ (a.mode = "alb" /\ op.entry = "cli_tunnel_url")

\* C1 (as claimed): a start requested while the local port already accepts
\* connections ends at once with the port-already-in-use outcome and spawns no
\* forwarding process, whatever the entry point.
C1_BusyPortRefusedEverywhere ==
    op.busy => (op.pc = "done" /\ result = PortInUse /\ attempts = <<>>)

\* C2 (as claimed): whenever an attempt's port opened and the remote end gave
\* no response, the spawned process is gone and the start operation returns
\* the remote-unreachable failure.
C2_NoResponseIsStartResult ==
    \A i \in DOMAIN attempts :
        attempts[i].outcome = "RemoteUnreachable" =>
            /\ attempts[i].pid \notin Pids(procs)
            /\ op.pc = "done" => result = Failure("RemoteUnreachable", 0)

\* C2 (amended): whenever an attempt's port opened and the remote end gave no
\* response, the spawned process is no longer in the process table, and the
\* start operation returns the remote-unreachable failure exactly when the
\* attempt was not one whose failure the caller absorbs (an attempt of the
\* multi-bastion loop, or the load-balancer attempt of the CLI tunnel-url).
C2_NoResponseKillsAndReports ==
    \A i \in DOMAIN attempts :
        attempts[i].outcome = "RemoteUnreachable" =>
            /\ attempts[i].opened
            /\ attempts[i].pid \notin Pids(procs)
            /\ op.pc = "done" =>
                 (result = Failure("RemoteUnreachable", 0) <=> ~Absorbed(attempts[i]))

\* C2 witness: a single-attempt start has returned after its probe got no response
C2_Witness ==
    /\ op.pc = "done"
    /\ Len(attempts) = 1
    /\ attempts[1].mode = "single"
    /\ attempts[1].outcome = "RemoteUnreachable"
    /\ result = Failure("RemoteUnreachable", 0)

\* C3 (as claimed): whenever an attempt's port never opened within the poll
\* timeout, the spawned process is gone, the start operation returns the
\* port-never-opened failure, no handle is returned and no spawned process of
\* the operation is left running.
C3_TimeoutIsStartResult ==
    \A i \in DOMAIN attempts :
        attempts[i].outcome = "PortClosed" =>
            /\ attempts[i].pid \notin Pids(procs)
            /\ op.pc = "done" =>
                 /\ result = Failure("PortClosed", 0)
                 /\ \A j \in DOMAIN attempts : attempts[j].pid \notin Pids(procs)

\* C3 (amended): whenever an attempt's port never opened within the poll
\* timeout, the spawned process is no longer in the process table and no handle
\* is returned for it; the start operation returns the port-never-opened
\* failure exactly when the attempt was not one whose failure the caller
\* absorbs.
C3_TimeoutKillsAndReports ==
    \A i \in DOMAIN attempts :
        attempts[i].outcome = "PortClosed" =>
            /\ ~attempts[i].opened
            /\ attempts[i].pid \notin Pids(procs)
            /\ result.h.pid # attempts[i].pid
            /\ op.pc = "done" =>
                 (result = Failure("PortClosed", 0) <=> ~Absorbed(attempts[i]))

\* C3 witness: a single-attempt start has returned after its port poll timed out
C3_Witness ==
    /\ op.pc = "done"
    /\ Len(attempts) = 1
    /\ attempts[1].mode = "single"
    /\ attempts[1].outcome = "PortClosed"
    /\ result = Failure("PortClosed", 0)

\* C4 (as claimed): detect_tunnels run right after a start returned a handle
\* returns a handle with the same process id, local port and remote port.
C4_DetectFindsStartedHandle ==
    (detected.ran /\ detected.after /\ result.kind = "Handle") =>
        \E i \in DOMAIN detected.handles :
            /\ detected.handles[i].pid = result.h.pid
            /\ detected.handles[i].local_port = result.h.local_port
            /\ detected.handles[i].remote_port = result.h.remote_port

CandidateErrors == {"Io", "PortClosed", "RemoteUnreachable"}

\* C11 (as claimed): a start that goes through candidates (the load-balancer
\* target, then the online bastions) reports the failure of a candidate only
\* when every candidate has been tried: a candidate's failure is never the
\* result while a later candidate is still untried.
C11_CandidateFailureOnlyWhenExhausted ==
    (op.pc = "done" /\ op.mode \in {"alb", "multi"} /\ result.kind = "Err"
        /\ result.err \in CandidateErrors) =>
        /\ op.mode = "multi"
        /\ op.idx = Len(op.cands)


\* the lifecycle of one attempt, read off its record: Starting while its
\* process waits for the port, Probing once the port opened, Active after
\* the probe was answered, Failed after the timeout or the silent probe
Phase(a) ==
    IF a.outcome = "running" THEN (IF a.opened THEN "Probing" ELSE "Starting")
    ELSE IF a.outcome = "ok" THEN "Active"
    ELSE "Failed"

C17_Returned ==
    /\ result.kind = "Handle" =>
         /\ op.pc = "done"
         /\ result.h.port_open
         /\ result.h.latency_ms \in Latencies
         /\ attempts # <<>>
         /\ attempts[Len(attempts)].pid = result.h.pid
         /\ attempts[Len(attempts)].opened
         /\ Phase(attempts[Len(attempts)]) = "Active"
    /\ \A i \in DOMAIN attempts :
         /\ Phase(attempts[i]) = "Failed" => result.h.pid # attempts[i].pid
         /\ Phase(attempts[i]) = "Active" => result.kind = "Handle" /\ i = Len(attempts)
    /\ (op.pc = "done" /\ attempts = <<>>) => result.kind # "Handle"

C17_Step ==
    \A i \in DOMAIN attempts \cap DOMAIN attempts' :
        Phase(attempts'[i]) # Phase(attempts[i]) =>
            \/ Phase(attempts[i]) = "Starting" /\ Phase(attempts'[i]) \in {"Probing", "Failed"}
            \/ Phase(attempts[i]) = "Probing" /\ Phase(attempts'[i]) \in {"Active", "Failed"}

\* C17: an attempt goes from Starting to Probing to Active and fails only
\* from Starting or Probing; a start operation returns a handle only for its
\* last attempt and only once that attempt's port opened and its probe was
\* answered (port_open true, a latency present); no handle is returned for
\* an attempt that failed, nor by an operation that spawned nothing.
C17_HandleOnlyAfterPassedProbe == []C17_Returned /\ [][C17_Step]_vars

\* C17 witness: a handle was returned for the second attempt, after the
\* first one failed in its probe
C17_Witness ==
    /\ result.kind = "Handle"
    /\ Len(attempts) = 2
    /\ attempts[1].outcome = "RemoteUnreachable"
    /\ attempts[2].outcome = "ok"


(***************************************************************************)
(* Detection on its own (the refresh of the TUI, stop_all_tunnels): the    *)
(* process table and the state of the local port are whatever earlier runs *)
(* and other programs left behind: an aws process with or without its      *)
(* plugin, a plugin that answers or stays silent, a second plugin that     *)
(* wanted the same port, a plugin line with no port to parse; the port is  *)
(* free, held by one of the plugins or held by a foreign process.          *)
(***************************************************************************)
LeftBehind ==
    LET aws == make_ssm_cmd(1, 1, NoHost, 8080, 8000)
    IN  {aws}
            \cup {PluginOf(aws, 2, live) : live \in BOOLEAN}
            \cup {PluginOf(aws, 3, TRUE)}
            \cup {[PluginOf(aws, 4, TRUE) EXCEPT !.lport = 0]}

DetectInit ==
    /\ procs \in {ps \in SUBSET LeftBehind : \A p, q \in ps : p.pid = q.pid => p = q}
    /\ listener \in [LPorts -> {Free, ForeignLive, ForeignSilent}
                                   \cup {p.pid : p \in {q \in procs : HasMarker(q) /\ q.lport # 0}}]
    /\ nextPid = MaxPid + 1
    /\ op = IdleOp
    /\ attempts = <<>>
    /\ result = NoResult
    /\ detected = NotDetected
    /\ fresh = FALSE
    /\ PathIdle
    /\ HopIdle
    /\ AppIdle

\* one run of detect_tunnels
DetectNow ==
    /\ ~detected.ran
    /\ \E ms \in Latencies :
         detected' = [handles |-> detect_tunnels(ms), ran |-> TRUE, after |-> FALSE]
    /\ UNCHANGED <<procs, listener, nextPid, op, attempts, result, fresh>>
    /\ UNCHANGED <<pathVars, hopVars, appVars>>

\* a process of the table exits between two runs
DetectProcExit ==
    /\ \E q \in procs :
         /\ procs' = procs \ {q}
         /\ listener' = Listeners(procs')
    /\ detected' = NotDetected
    /\ UNCHANGED <<nextPid, op, attempts, result, fresh>>
    /\ UNCHANGED <<pathVars, hopVars, appVars>>

DetectNext ==
    \/ DetectNow
    \/ DetectProcExit

SpecDetect == DetectInit /\ [][DetectNext]_vars

\* C19: detection returns one handle for each plugin line with a local
\* port; its port_open is what testing that port gives, its latency is
\* present exactly when the port is open and the probe through it was
\* answered, so that a present latency implies port_open.
C19_DetectedFlagsFromProbe ==
    detected.ran =>
        /\ HandlePids(detected.handles) =
               {p.pid : p \in {q \in procs : HasMarker(q) /\ q.lport # 0}}
        /\ \A i \in DOMAIN detected.handles :
             LET h == detected.handles[i] IN
             /\ h.port_open = test_port(h.local_port)
             /\ h.latency_ms # NoLatency => h.port_open
             /\ h.latency_ms # NoLatency <=> (test_port(h.local_port) /\ Responds(h.local_port))

\* C19 witness: detection found a plugin whose port is closed and was not
\* probed
C19_Witness ==
    /\ detected.ran
    /\ \E i \in DOMAIN detected.handles :
         /\ ~detected.handles[i].port_open
         /\ detected.handles[i].latency_ms = NoLatency

(***************************************************************************)
(* Path resolution.                                                        *)
(*                                                                         *)
(* A string is a sequence of tokens: a URL is its scheme prefix, its host, *)
(* ":" and a port, "/" and a path; an address is one token.  The account   *)
(* is a sequence of instances in describe-instances order; an instance id  *)
(* is its position in that sequence.                                       *)
(***************************************************************************)
Hosts == {"app.internal"}
UrlSchemes == {"", "http://", "https://"}
UrlPorts == {"", "8443"}
UrlPaths == {"", "health"}
Urls == [scheme : UrlSchemes, host : Hosts, port : UrlPorts, path : UrlPaths]

Loopback == "127.0.0.1"
PrivateIps == {"10.0.0.5"}
PublicIps == {"54.1.2.3"}
LbIps == {"10.0.1.9"}
IPs == PrivateIps \cup LbIps
NoIp == "none"

Names == {<<"web">>, <<"Bastion">>}
States == {"running", "stopped"}
Pings == {"Online", "Offline"}
FailModes == {"none", "ec2", "ssm", "elb"}

BoundedSeq(S, n) == UNION {[1..k -> S] : k \in 0..n}
Range(s) == {s[k] : k \in DOMAIN s}
\* a DNS answer lists each address once
Answers(S, n) == {s \in BoundedSeq(S, n) : \A i, j \in DOMAIN s : i # j => s[i] # s[j]}

\* the string the user typed
UrlTokens(u) ==
    (IF u.scheme = "" THEN <<>> ELSE <<u.scheme>>)
    \o <<u.host>>
    \o (IF u.port = "" THEN <<>> ELSE <<":", u.port>>)
    \o (IF u.path = "" THEN <<>> ELSE <<"/", u.path>>)

RECURSIVE trim_start_matches(_, _)
trim_start_matches(s, pat) ==
    IF s # <<>> /\ Head(s) = pat THEN trim_start_matches(Tail(s), pat) ELSE s

\* s.split(sep).next()
RECURSIVE split_next(_, _)
split_next(s, sep) ==
    IF s = <<>> \/ Head(s) = sep THEN <<>>
    ELSE <<Head(s)>> \o split_next(Tail(s), sep)

strip_url_to_host_keepport(s) ==
    split_next(trim_start_matches(trim_start_matches(s, "https://"), "http://"), "/")
strip_url_to_host(s) ==
    split_next(
        split_next(trim_start_matches(trim_start_matches(s, "https://"), "http://"), "/"),
        ":")

\* if input.starts_with("https://") { 443 } else { 80 }
SchemePort(s) == IF s # <<>> /\ Head(s) = "https://" THEN HttpsPort ELSE HttpPort

\* the local resolver knows the input's host and nothing else
dns_lookup(h) == IF h = <<input.host>> THEN dns.local ELSE <<>>
dns_lookup_external(h) == IF h = <<input.host>> THEN dns.ext ELSE <<>>
is_loopback(a) == a = Loopback

Ok(v) == [ok |-> TRUE, val |-> v, err |-> ""]
Err(e) == [ok |-> FALSE, val |-> <<>>, err |-> e]

\* instance id -> ping status; empty when the query fails and the caller
\* takes the default
get_ssm_status(fail) ==
    IF fail = "ssm" THEN Err("AwsCli") ELSE Ok([i \in DOMAIN inv |-> inv[i].ping])
unwrap_or_default(r) == IF r.ok THEN r.val ELSE <<>>
map_get(m, i) == IF i \in DOMAIN m THEN m[i] ELSE "absent"

raw_to_instance(i, ssm_map) ==
    [id |-> i, name |-> inv[i].name, state |-> inv[i].state,
     private_ip |-> inv[i].private_ip, public_ip |-> inv[i].public_ip,
     security_group_ids |-> inv[i].sgs,
     ssm_status |-> CASE map_get(ssm_map, i) = "Online" -> "Online"
                      [] map_get(ssm_map, i) = "Offline" -> "Offline"
                      [] OTHER -> "Unknown"]

list_instances(fail) ==
    IF fail = "ec2" THEN Err("AwsCli")
    ELSE Ok([i \in DOMAIN inv |-> raw_to_instance(i, unwrap_or_default(get_ssm_status(fail)))])

to_lowercase(name) ==
    [k \in DOMAIN name |-> IF name[k] = "Bastion" THEN "bastion" ELSE name[k]]
contains(name, word) == \E k \in DOMAIN name : name[k] = word

IsBastion_anystate(i) == contains(to_lowercase(i.name), "bastion")
IsBastion(i) == contains(to_lowercase(i.name), "bastion") /\ i.state = "running"

find_bastions(fail) ==
    LET ssm_map == unwrap_or_default(get_ssm_status(fail))
        instances == list_instances(fail)
    IN  IF ~instances.ok THEN instances
        ELSE LET kept == SelectSeq(instances.val, IsBastion)
             IN  Ok([k \in DOMAIN kept |->
                       [id |-> kept[k].id, name |-> kept[k].name,
                        ssm_online |-> map_get(ssm_map, kept[k].id) = "Online"]])

\* .filter(|b| b.ssm_online)
OnlineOnly_all(bastions) == bastions
OnlineOnly(bastions) == SelectSeq(bastions, LAMBDA b : b.ssm_online)

\* for addr in &addrs { instances.iter().find(private_ip == addr) }
RECURSIVE DirectMatch(_, _)
DirectMatch(addrs, instances) ==
    IF addrs = <<>> THEN 0
    ELSE LET hits == SelectSeq(instances, LAMBDA i : i.private_ip = Head(addrs))
         IN  IF hits # <<>> THEN hits[1].id ELSE DirectMatch(Tail(addrs), instances)

ErrPath(flow, fail, e) ==
    [NoPath EXCEPT !.flow = flow, !.fail = fail, !.kind = "Err", !.err = e]
Ec2Path(flow, fail, id) ==
    [NoPath EXCEPT !.flow = flow, !.fail = fail, !.kind = "Ec2", !.inst = id]
AlbHopPath(flow, fail) ==
    [NoPath EXCEPT !.flow = flow, !.fail = fail, !.kind = "AlbHop"]
RemoteViaBastion(flow, fail, online, host, port) ==
    [NoPath EXCEPT !.flow = flow, !.fail = fail, !.kind = "RemoteViaBastion",
                   !.relay = online[1].id,
                   !.cands = [k \in DOMAIN online |-> online[k].id],
                   !.host = host, !.port = port]

resolve_dns_to_target(s, fail) ==
    LET host == strip_url_to_host(s)
        addrs == dns_lookup(host)
        instances == list_instances(fail)
    IN  IF ~instances.ok THEN ErrPath("dns", fail, instances.err)
        ELSE IF DirectMatch(addrs, instances.val) # 0
        THEN Ec2Path("dns", fail, DirectMatch(addrs, instances.val))
        ELSE LET bastions == find_bastions(fail)
             IN  IF ~bastions.ok THEN ErrPath("dns", fail, bastions.err)
                 ELSE IF OnlineOnly(bastions.val) = <<>>
                 THEN ErrPath("dns", fail, "NoBastions")
                 ELSE RemoteViaBastion("dns", fail, <<OnlineOnly(bastions.val)[1]>>,
                                       IF addrs # <<>> THEN <<addrs[1]>> ELSE host,
                                       SchemePort(s))

\* Some(arn) / None as a boolean; the account has at most one load balancer
find_alb_for_hostname(host, fail) ==
    LET local == dns_lookup(host)
        external == dns_lookup_external(host)
        resolved == IF (\A k \in DOMAIN local : is_loopback(local[k])) /\ external # <<>>
                    THEN external ELSE local
        target_ips == {a \in Range(resolved) : ~is_loopback(a)}
    IN  IF target_ips = {} THEN Ok(FALSE)
        ELSE IF fail = "elb" THEN Err("AwsCli")
        ELSE Ok(target_ips \cap alb.ips # {})

\* the bastion stage of the tunnel-url flow, up to the list of candidates
start_url_tunnel_via_any_bastion(s, fail) ==
    LET host == strip_url_to_host(s)
        remote_port == SchemePort(s)
        bastions == find_bastions(fail)
    IN  IF ~bastions.ok THEN ErrPath("url", fail, bastions.err)
        ELSE IF OnlineOnly(bastions.val) = <<>> THEN ErrPath("url", fail, "NoBastions")
        ELSE RemoteViaBastion("url", fail, OnlineOnly(bastions.val), host, remote_port)

\* run_cli Cmd::TunnelUrl and the URL wizard: the load-balancer stage first
\* (a failed lookup counts as no load balancer), the bastions otherwise
tunnel_url(s, fail) ==
    LET host == strip_url_to_host(s)
        found == find_alb_for_hostname(host, fail)
    IN  IF found.ok /\ found.val /\ alb.hop THEN AlbHopPath("url", fail)
        ELSE start_url_tunnel_via_any_bastion(s, fail)

PathInstances ==
    [name : Names, state : States, ping : Pings,
     private_ip : {NoIp} \cup PrivateIps, public_ip : {NoIp}, sgs : {{}}]

PathInit ==
    /\ input \in {u \in Urls : u.scheme # "" /\ u.port = "" /\ u.path = ""}
    \* the external resolver is only asked when the local one gave no address
    /\ dns \in {d \in [local : Answers(IPs, MaxAddrs),
                        ext : {<<>>} \cup {<<a>> : a \in LbIps}] :
                    d.ext # <<>> => d.local = <<>>}
    /\ inv \in BoundedSeq(PathInstances, MaxInst)
    /\ alb \in {NoAlb} \cup [ips : (SUBSET LbIps) \ {{}}, hop : BOOLEAN]
    /\ path = NoPath
    /\ TunnelIdle
    /\ HopIdle
    /\ AppIdle

UrlInstances ==
    [name : Names, state : States, ping : Pings, private_ip : {NoIp},
     public_ip : {NoIp}, sgs : {{}}]

UrlInit ==
    /\ input \in Urls
    /\ dns \in [local : Answers(PrivateIps, MaxAddrs), ext : {<<>>}]
    /\ inv \in BoundedSeq(UrlInstances, MaxInst)
    /\ alb = NoAlb
    /\ path = NoPath
    /\ TunnelIdle
    /\ HopIdle
    /\ AppIdle

\* awsx2 tunnel-dns: start_dns_tunnel resolves the input with resolve_dns_to_target
RunTunnelDns ==
    /\ path.flow = "none"
    /\ \E fail \in FailModes : path' = resolve_dns_to_target(UrlTokens(input), fail)
    /\ UNCHANGED <<input, dns, inv, alb>>
    /\ UNCHANGED <<tunnelVars, hopVars, appVars>>

\* awsx2 tunnel-url and the URL wizard of the Tunnels page
RunTunnelUrl ==
    /\ path.flow = "none"
    /\ \E fail \in FailModes : path' = tunnel_url(UrlTokens(input), fail)
    /\ UNCHANGED <<input, dns, inv, alb>>
    /\ UNCHANGED <<tunnelVars, hopVars, appVars>>

PathNext ==
    \/ RunTunnelDns
    \/ RunTunnelUrl

SpecPath == PathInit /\ [][PathNext]_vars
SpecUrl == UrlInit /\ [][PathNext]_vars

(***************************************************************************)
(* Claims about path resolution.                                           *)
(***************************************************************************)
\* what the account really holds, whatever order the code scans it in
DirectMatchExists ==
    \E k \in DOMAIN dns.local, i \in DOMAIN inv : inv[i].private_ip = dns.local[k]
OnlineBastions ==
    {i \in DOMAIN inv :
        /\ \E k \in DOMAIN inv[i].name : inv[i].name[k] \in {"bastion", "Bastion"}
        /\ inv[i].state = "running"
        /\ inv[i].ping = "Online"}
LbMatchPossible ==
    alb.hop /\ alb.ips \cap (Range(dns.local) \cup Range(dns.ext)) # {}
Resolved == path.flow # "none" /\ path.fail = "none"

\* C5 (as stated): whenever one of the host's resolved addresses is the
\* private address of a known instance, path resolution returns the
\* direct-instance path to an instance holding such an address, whatever the
\* load balancer and the bastions are.
C5_DirectMatchAlwaysDirect ==
    (Resolved /\ DirectMatchExists) =>
        /\ path.kind = "Ec2"
        /\ inv[path.inst].private_ip \in Range(dns.local)

\* C7: on an input with no direct match and no load-balancer match, path
\* resolution returns a bastion-relay path through an online bastion when the
\* account has one, and fails with NoBastions when it has none.
C7_BastionRelayOrNoBastions ==
    (Resolved /\ ~DirectMatchExists /\ ~LbMatchPossible) =>
        IF OnlineBastions # {}
        THEN /\ path.kind = "RemoteViaBastion"
             /\ path.relay \in OnlineBastions
        ELSE /\ path.kind = "Err"
             /\ path.err = "NoBastions"

\* a relay was chosen past an earlier bastion that is stopped or offline
C7_Witness ==
    /\ Resolved /\ ~DirectMatchExists /\ ~LbMatchPossible
    /\ path.flow = "url"
    /\ path.kind = "RemoteViaBastion"
    /\ path.relay = 2
    /\ inv[1].name = <<"Bastion">>
    /\ dns.local # <<>>

\* C8: for a host with no local address and exactly one online bastion, the
\* bastion-relay path names that bastion, carries the host of the URL as
\* typed (no scheme, no port, no path) as target host, and carries port 443
\* for an https:// input and 80 for any other.
C8_LiteralHostAndSchemePort ==
    (Resolved /\ dns.local = <<>> /\ Cardinality(OnlineBastions) = 1) =>
        /\ path.kind = "RemoteViaBastion"
        /\ {path.relay} = OnlineBastions
        /\ path.host = <<input.host>>
        /\ path.port = (IF input.scheme = "https://" THEN 443 ELSE 80)

C8_Witness ==
    /\ Resolved /\ dns.local = <<>> /\ Cardinality(OnlineBastions) = 1
    /\ path.flow = "dns"
    /\ input.scheme = "https://" /\ input.port # "" /\ input.path # ""
    /\ Len(inv) > 1
    /\ path.port = HttpsPort

\* a control-plane query made during the resolution failed: the instance and
\* agent-status queries are made by every resolution that does not end at the
\* load-balancer stage, the load-balancer query by the tunnel-url flow when
\* the host has an address to match
UpstreamFailed ==
    \/ /\ path.fail \in {"ec2", "ssm"}
       /\ path.kind # "AlbHop"
    \/ /\ path.fail = "elb"
       /\ path.flow = "url"
       /\ \/ dns.local # <<>>
          \/ dns.ext # <<>>

\* C12 (as claimed): a resolution during which a control-plane query failed
\* ends in the upstream-query failure, never in an outcome a successful query
\* that found nothing would give (no load balancer, no online bastion).
C12_QueryFailureIsReported ==
    (path.flow # "none" /\ UpstreamFailed) =>
        /\ path.kind = "Err"
        /\ path.err = "AwsCli"


(***************************************************************************)

(***************************************************************************)
(* Resolution under a local override: /etc/hosts (awsx2 --proxy) makes the *)
(* local resolver answer with the loopback address, alone or before the    *)
(* real one; the external resolver knows the load balancer's address or    *)
(* nothing.                                                                *)
(***************************************************************************)
AllLoopback(addrs) == \A k \in DOMAIN addrs : is_loopback(addrs[k])

LoopInit ==
    /\ input \in {u \in Urls : u.scheme # "" /\ u.port = "" /\ u.path = ""}
    /\ dns \in {d \in [local : Answers({Loopback} \cup LbIps, MaxAddrs),
                        ext : {<<>>} \cup {<<a>> : a \in LbIps}] :
                    /\ Loopback \in Range(d.local)
                    /\ d.ext # <<>> => AllLoopback(d.local)}
    /\ inv \in BoundedSeq(UrlInstances, MaxInst)
    /\ alb \in {NoAlb} \cup [ips : (SUBSET LbIps) \ {{}}, hop : BOOLEAN]
    /\ path = NoPath
    /\ TunnelIdle
    /\ HopIdle
    /\ AppIdle

SpecLoop == LoopInit /\ [][PathNext]_vars

\* C14 (as claimed): when the local resolver answers with loopback addresses
\* only and the external resolver has an answer, the external answer is the
\* one matched against the load balancers; and no path has a loopback
\* address as its remote address: a bastion relay is never told to forward
\* to one.
C14_LoopbackNeverRemote ==
    path.flow # "none" =>
        /\ path.kind = "RemoteViaBastion" =>
              \A k \in DOMAIN path.host : ~is_loopback(path.host[k])
        /\ (/\ path.flow = "url"
            /\ path.fail = "none"
            /\ AllLoopback(dns.local)
            /\ Range(dns.ext) \cap alb.ips # {}
            /\ alb.hop) => path.kind = "AlbHop"

(***************************************************************************)
(* Direct match over instances that have a public address as well: the     *)
(* host resolves to private and public addresses of the account.           *)
(***************************************************************************)
PublicInstances ==
    [name : Names, state : {"running"}, ping : Pings,
     private_ip : {NoIp} \cup PrivateIps, public_ip : {NoIp} \cup PublicIps,
     sgs : {{}}]

PublicInit ==
    /\ input \in {u \in Urls : u.scheme = "http://" /\ u.port = "" /\ u.path = ""}
    /\ dns \in [local : Answers(PrivateIps \cup PublicIps, MaxAddrs), ext : {<<>>}]
    /\ inv \in BoundedSeq(PublicInstances, MaxInst)
    /\ alb = NoAlb
    /\ path = NoPath
    /\ TunnelIdle
    /\ HopIdle
    /\ AppIdle

SpecPublic == PublicInit /\ [][PathNext]_vars

\* instance i has the address, as its private or its public one
HasAddress(i, a) == inv[i].private_ip = a \/ inv[i].public_ip = a

\* C22 (as claimed): when the inventory could be read, tunnel-dns resolves to
\* the instance found by scanning the resolved addresses in order and, for
\* the first address some instance has as its private or public address,
\* taking the first such instance in inventory order.
C22_DirectMatchPrivateOrPublic ==
    (path.flow = "dns" /\ path.fail # "ec2") =>
        \A k \in DOMAIN dns.local, i \in DOMAIN inv :
            (/\ HasAddress(i, dns.local[k])
             /\ \A j \in 1..(k - 1), h \in DOMAIN inv : ~HasAddress(h, dns.local[j])
             /\ \A h \in 1..(i - 1) : ~HasAddress(h, dns.local[k]))
            => (path.kind = "Ec2" /\ path.inst = i)


(***************************************************************************)
(* The bastion fallback from the inventory to the handle: the candidates   *)
(* of the start operation are the instances find_bastions returns for the  *)
(* account's inventory, and the tunnel supervisor tries them.              *)
(***************************************************************************)
RelayEntries == UrlEntries \cup {"cli_tunnel_dns"}

RelayInit ==
    /\ procs = {}
    /\ listener = [p \in LPorts |-> Free]
    /\ nextPid = 1
    /\ op = IdleOp
    /\ attempts = <<>>
    /\ result = NoResult
    /\ detected = NotDetected
    /\ fresh = FALSE
    /\ input = [scheme |-> "https://", host |-> "app.internal", port |-> "", path |-> ""]
    /\ dns = NoDns
    /\ inv \in BoundedSeq(UrlInstances, MaxInst)
    /\ alb = NoAlb
    /\ path = NoPath
    /\ HopIdle
    /\ AppIdle

\* start_dns_tunnel: resolve_dns_to_target over the inventory
ResolveDnsInv(fail) ==
    /\ op.pc = "resolve"
    /\ op.entry = "cli_tunnel_dns"
    /\ LET p == resolve_dns_to_target(UrlTokens(input), fail)
       IN  IF p.kind = "Err"
           THEN /\ op' = [op EXCEPT !.pc = "done"]
                /\ Return(Failure(p.err, 0))
           ELSE /\ op' = [op EXCEPT !.pc = "spawn", !.mode = "single", !.idx = 1,
                                    !.cands = <<IF p.kind = "Ec2" THEN p.inst ELSE p.relay>>,
                                    !.host = IF p.kind = "Ec2" THEN NoHost ELSE "h"]
                /\ UNCHANGED <<result, fresh>>
    /\ UNCHANGED <<procs, listener, nextPid, attempts, detected>>
    /\ UNCHANGED <<pathVars, hopVars, appVars>>

\* start_url_tunnel_via_any_bastion: find_bastions over the inventory, keep
\* the online ones
FindBastionsInv(fail) ==
    /\ op.pc = "bastions"
    /\ LET p == start_url_tunnel_via_any_bastion(UrlTokens(input), fail)
       IN  IF p.kind = "Err"
           THEN /\ op' = [op EXCEPT !.pc = "done"]
                /\ Return(Failure(p.err, 0))
           ELSE /\ op' = [op EXCEPT !.pc = "spawn", !.mode = "multi", !.idx = 1,
                                    !.cands = p.cands, !.host = "h", !.rport = p.port]
                /\ UNCHANGED <<result, fresh>>
    /\ UNCHANGED <<procs, listener, nextPid, attempts, detected>>
    /\ UNCHANGED <<pathVars, hopVars, appVars>>

RelayNext ==
    \/ \E e \in RelayEntries, lp \in LPorts, rp \in RPorts : Begin(e, lp, rp)
    \/ \E fail \in {"none", "ec2", "ssm"} : ResolveDnsInv(fail)
    \/ ResolveAlb
    \/ \E fail \in {"none", "ec2", "ssm"} : FindBastionsInv(fail)
    \/ SpawnOk
    \/ SpawnFail
    \/ WaitOpen
    \/ WaitSleep
    \/ WaitTimeout
    \/ ProbeOk
    \/ ProbeFail
    \/ MultiRetry
    \/ EnvPluginUp
    \/ EnvOrphanExit

SpecRelay == RelayInit /\ [][RelayNext]_vars

\* the instances that may relay: named bastion, running, agent online, in
\* inventory order
RelayCapable ==
    SelectSeq([i \in DOMAIN inv |-> i],
              LAMBDA i : /\ \E k \in DOMAIN inv[i].name :
                               inv[i].name[k] \in {"bastion", "Bastion"}
                         /\ inv[i].state = "running"
                         /\ inv[i].ping = "Online")

\* the attempts the bastion fallback made
FallbackAttempts ==
    SelectSeq(attempts, LAMBDA a : a.mode = "multi" \/ (a.mode = "single" /\ op.host = "h"))

\* C23 (as claimed): the relay of every attempt of the bastion fallback is
\* the first instance of the inventory that is named bastion, running and
\* agent-online.
C23_RelayIsFirstBastion ==
    \A k \in DOMAIN FallbackAttempts :
        /\ RelayCapable # <<>>
        /\ FallbackAttempts[k].relay = RelayCapable[1]

\* C23 (amended): every relay the bastion fallback tries is an instance named
\* bastion, running and agent-online; the k-th attempt goes through the k-th
\* such instance in inventory order, so the relay of the returned handle is
\* the first of them whose tunnel came up, and tunnel-dns, which makes one
\* attempt, uses the first.
C23_RelayIsFirstWorkingBastion ==
    /\ Len(FallbackAttempts) <= Len(RelayCapable)
    /\ \A k \in DOMAIN FallbackAttempts :
          /\ FallbackAttempts[k].relay = RelayCapable[k]
          /\ k < Len(FallbackAttempts) => FallbackAttempts[k].outcome \in FailedOutcomes
    /\ (result.kind = "Handle" /\ FallbackAttempts # <<>>) =>
          result.h.instance_id = RelayCapable[Len(FallbackAttempts)]

\* the handle goes through the second instance: the first one is a bastion
\* that is online but stopped
C23_Witness ==
    /\ result.kind = "Handle"
    /\ op.mode = "multi"
    /\ Len(inv) = 2
    /\ inv[1].name = <<"Bastion">> /\ inv[1].ping = "Online" /\ inv[1].state = "stopped"
    /\ result.h.instance_id = 2

(***************************************************************************)
(* The load-balancer stage: the loop of try_alb_tunnel (CLI) and of        *)
(* try_alb_tunnel_bg (TUI) over the healthy targets, and the hop selector. *)
(* A target is known by its position in the list the target query          *)
(* returned; its network interface carries one security group whose        *)
(* inbound permissions are part of the target's record.                    *)
(***************************************************************************)
SourceGroups == {"sg-a", "sg-b"}
TargetKinds == {"lookup-fails", "any-from-a", "tcp-from-b", "tcp-other-port"}
HopFailModes == {"none", "ec2"}

\* the port the k-th target listens on
TargetPort(k) == 8000 + k

\* a FromPort / ToPort the JSON of a permission does not have
Absent == -65536

\* one inbound permission as describe-security-groups prints it
Perm(proto, from, to, pairs) ==
    [proto |-> proto, from |-> from, to |-> to, pairs |-> pairs]

TargetOf(k, kind) ==
    [id |-> k, port |-> TargetPort(k),
     sgq |-> IF kind = "lookup-fails" THEN "err" ELSE "ok",
     sgs |-> IF kind = "lookup-fails" THEN <<>> ELSE <<"sg-target">>,
     perms |-> CASE kind = "any-from-a" -> <<Perm("-1", 0, 0, <<"sg-a">>)>>
                 [] kind = "tcp-from-b" ->
                        <<Perm("tcp", TargetPort(k), TargetPort(k), <<"sg-b">>)>>
                 [] kind = "tcp-other-port" ->
                        <<Perm("tcp", TargetPort(k) + 1, TargetPort(k) + 1, <<"sg-a">>)>>
                 [] OTHER -> <<>>]

TargetLists ==
    UNION {{[k \in 1..n |-> TargetOf(k, f[k])] : f \in [1..n -> TargetKinds]} :
           n \in 0..MaxTargets}

get_target_sg_ids(t) == IF t.sgq = "err" THEN Err("AwsCli") ELSE Ok(t.sgs)

\* .as_i64().unwrap_or(0)
as_i64_or_0(n) == IF n = Absent THEN 0 ELSE n

\* `as u16` of the JSON number
AsU16(n) == n % 65536

matches_port(perm, port) ==
    IF perm.proto = "-1" THEN TRUE
    ELSE /\ AsU16(as_i64_or_0(perm.from)) <= port
         /\ port <= AsU16(as_i64_or_0(perm.to))

\* if !allowed.contains(gid) { allowed.push(gid) }
RECURSIVE PushNew(_, _)
PushNew(allowed, gids) ==
    IF gids = <<>> THEN allowed
    ELSE PushNew(IF Head(gids) \in Range(allowed) THEN allowed
                 ELSE Append(allowed, Head(gids)),
                 Tail(gids))

RECURSIVE ScanPerms(_, _, _)
ScanPerms(perms, port, allowed) ==
    IF perms = <<>> THEN allowed
    ELSE ScanPerms(Tail(perms), port,
                   IF matches_port(Head(perms), port)
                   THEN PushNew(allowed, Head(perms).pairs) ELSE allowed)

get_allowed_source_sgs(t, sg_ids, port) ==
    IF sg_ids = <<>> THEN Ok(<<>>) ELSE Ok(ScanPerms(t.perms, port, <<>>))

Eligible_anystate(i) == i.ssm_status = "Online"
Eligible(i) == i.ssm_status = "Online" /\ i.state = "running"

\* Ok(Some(id)) is Ok(id), Ok(None) is Ok(0)
find_ssm_hop_by_sgs(allowed_sg_ids, fail) ==
    LET allowed_set == Range(allowed_sg_ids)
        instances == list_instances(fail)
    IN  IF ~instances.ok THEN [ok |-> FALSE, val |-> 0, err |-> instances.err]
        ELSE LET hits == SelectSeq(SelectSeq(instances.val, Eligible),
                                   LAMBDA i : i.security_group_ids \cap allowed_set # {})
             IN  [ok |-> TRUE, val |-> IF hits = <<>> THEN 0 ELSE hits[1].id, err |-> ""]

\* what one call of the hop selector was given and what it returned
HopCall(allowed, r) == [made |-> TRUE, allowed |-> allowed, ok |-> r.ok, ret |-> r.val]
NoCall == [made |-> FALSE, allowed |-> <<>>, ok |-> TRUE, ret |-> 0]

NextTarget_skip(idx) == idx + 2
NextTarget(idx) == idx + 1

\* `continue`, or the end of the loop: no path through the load balancer
Continue(call) ==
    IF NextTarget(hs.idx) <= Len(targets)
    THEN hs' = [hs EXCEPT !.idx = NextTarget(hs.idx), !.call = call]
    ELSE hs' = [hs EXCEPT !.pc = "done", !.out = "fallback", !.call = call]

\* start_remote_tunnel_via_instance(&hop.id, &hop.name, target_ip, local_port, *target_port)
TunnelTo(t, hop, call) ==
    hs' = [hs EXCEPT !.pc = "done", !.out = "hop", !.target = t.id, !.hop = hop,
                     !.port = t.port, !.call = call]

HopInstances ==
    [name : {<<"web">>}, state : States, ping : Pings, private_ip : {NoIp},
     public_ip : {NoIp},
     sgs : {{}} \cup {{g} : g \in SourceGroups}]

HopInit ==
    /\ inv \in BoundedSeq(HopInstances, MaxInst)
    /\ targets \in TargetLists
    /\ lb = NoLb
    /\ hs = IdleHop
    /\ input = NoInput
    /\ dns = NoDns
    /\ alb = NoAlb
    /\ path = NoPath
    /\ TunnelIdle
    /\ AppIdle

\* the host matched a load balancer and its healthy targets were fetched
AlbBegin(flow, fail) ==
    /\ hs.pc = "idle"
    /\ hs' = IF targets = <<>>
             THEN [hs EXCEPT !.flow = flow, !.fail = fail, !.pc = "done", !.out = "fallback"]
             ELSE [hs EXCEPT !.flow = flow, !.fail = fail, !.pc = "loop", !.idx = 1]
    /\ UNCHANGED <<inv, lb, targets>>
    /\ UNCHANGED <<tunnelVars, input, dns, alb, path, appVars>>

\* one iteration of the loop of try_alb_tunnel
TryAlbTarget ==
    /\ hs.pc = "loop"
    /\ hs.flow = "cli"
    /\ LET t == targets[hs.idx]
           target_sgs == get_target_sg_ids(t)
           allowed_sgs == get_allowed_source_sgs(t, target_sgs.val, t.port)
           hop == find_ssm_hop_by_sgs(allowed_sgs.val, hs.fail)
       IN  IF ~(target_sgs.ok /\ target_sgs.val # <<>>) THEN Continue(NoCall)
           ELSE IF ~(allowed_sgs.ok /\ allowed_sgs.val # <<>>) THEN Continue(NoCall)
           ELSE IF hop.ok /\ hop.val # 0
                THEN TunnelTo(t, hop.val, HopCall(allowed_sgs.val, hop))
                ELSE Continue(HopCall(allowed_sgs.val, hop))
    /\ UNCHANGED <<inv, lb, targets>>
    /\ UNCHANGED <<tunnelVars, input, dns, alb, path, appVars>>

\* one iteration of the loop of try_alb_tunnel_bg
TryAlbTargetBg ==
    /\ hs.pc = "loop"
    /\ hs.flow = "tui"
    /\ LET t == targets[hs.idx]
           target_sgs == unwrap_or_default(get_target_sg_ids(t))
           allowed == unwrap_or_default(get_allowed_source_sgs(t, target_sgs, t.port))
           hop == find_ssm_hop_by_sgs(allowed, hs.fail)
       IN  IF target_sgs = <<>> THEN Continue(NoCall)
           ELSE IF hop.ok /\ hop.val # 0
                THEN TunnelTo(t, hop.val, HopCall(allowed, hop))
                ELSE Continue(HopCall(allowed, hop))
    /\ UNCHANGED <<inv, lb, targets>>
    /\ UNCHANGED <<tunnelVars, input, dns, alb, path, appVars>>

HopNext ==
    \/ \E flow \in {"cli", "tui"}, fail \in HopFailModes : AlbBegin(flow, fail)
    \/ TryAlbTarget
    \/ TryAlbTargetBg

SpecHop == HopInit /\ [][HopNext]_vars

(***************************************************************************)
(* Claims about the load-balancer stage.                                   *)
(***************************************************************************)
\* the groups the permissions of target j let in on the target's port
Permitted(j) ==
    {g \in SourceGroups :
        \E k \in DOMAIN targets[j].perms :
            /\ g \in Range(targets[j].perms[k].pairs)
            /\ \/ targets[j].perms[k].proto = "-1"
               \/ /\ targets[j].perms[k].from <= targets[j].port
                  /\ targets[j].port <= targets[j].perms[k].to}
\* instance i can relay for a target that lets the groups gs in
Qualifies(i, gs) ==
    /\ inv[i].ping = "Online"
    /\ inv[i].state = "running"
    /\ inv[i].sgs \cap gs # {}
HopExists(j) ==
    /\ targets[j].sgq = "ok"
    /\ \E i \in DOMAIN inv : Qualifies(i, Permitted(j))

C9_HopSelectorFirstQualifying ==
    (hs.call.made /\ hs.fail = "none") =>
        /\ hs.call.ok
        /\ hs.call.ret # 0 =>
              /\ hs.call.ret \in DOMAIN inv
              /\ Qualifies(hs.call.ret, Range(hs.call.allowed))
              /\ \A i \in 1..(hs.call.ret - 1) : ~Qualifies(i, Range(hs.call.allowed))
        /\ hs.call.ret = 0 =>
              \A i \in DOMAIN inv : ~Qualifies(i, Range(hs.call.allowed))

\* the second instance was returned past a first one that is a member of an
\* allowed group and online, but stopped
C9_Witness ==
    /\ hs.call.made /\ hs.fail = "none"
    /\ hs.call.ret = 2
    /\ inv[1].sgs \cap Range(hs.call.allowed) # {}
    /\ inv[1].ping = "Online"
    /\ inv[1].state = "stopped"


(***************************************************************************)
(* get_allowed_source_sgs over the permissions a security group can have:  *)
(* all traffic, tcp and icmp rules (FromPort / ToPort of an icmp rule are  *)
(* the icmp type and code, -1 for all), a bound present, absent or -1.     *)
(* One target, one rule list; the loop of try_alb_tunnel_bg hands the      *)
(* allowed list to the hop selector, where it is read.                     *)
(***************************************************************************)
MaxRules == 2

\* the icmp type of an echo request, the FromPort of a rule that lets ping in
EchoRequest == 8

RulePerms ==
    {Perm(proto, from, to, pairs) :
        proto \in {"-1", "tcp", "icmp"},
        from \in {Absent, -1, EchoRequest, TargetPort(1)},
        to \in {Absent, -1, TargetPort(1)},
        pairs \in {<<"sg-a">>, <<"sg-a", "sg-b">>}}

RulesInit ==
    /\ targets \in {<<[TargetOf(1, "any-from-a") EXCEPT !.perms = perms]>> :
                       perms \in BoundedSeq(RulePerms, MaxRules)}
    /\ lb = NoLb
    /\ inv \in BoundedSeq({[name |-> <<"web">>, state |-> "running", ping |-> "Online",
                            private_ip |-> NoIp, public_ip |-> NoIp,
                            sgs |-> {"sg-b"}]}, 1)
    /\ hs = IdleHop
    /\ input = NoInput
    /\ dns = NoDns
    /\ alb = NoAlb
    /\ path = NoPath
    /\ TunnelIdle
    /\ AppIdle

SpecRules == RulesInit /\ [][HopNext]_vars

\* the rule lets the port in: all traffic, or both bounds present, not
\* negative, and from <= port <= to
RuleAdmits(perm, port) ==
    \/ perm.proto = "-1"
    \/ /\ perm.from # Absent /\ perm.to # Absent
       /\ perm.from >= 0 /\ perm.to >= 0
       /\ perm.from <= port /\ port <= perm.to

\* C20 (as claimed): the list handed to the hop selector holds exactly the
\* source groups of the rules that are for all traffic or whose range holds
\* the target's port, a rule with an absent or negative bound adding
\* nothing, and holds each group once.
C20_PermittedSourcesExact ==
    (hs.call.made /\ Len(targets) = 1) =>
        /\ Range(hs.call.allowed) =
               {g \in SourceGroups :
                   \E k \in DOMAIN targets[1].perms :
                       /\ g \in Range(targets[1].perms[k].pairs)
                       /\ RuleAdmits(targets[1].perms[k], targets[1].port)}
        /\ \A i, j \in DOMAIN hs.call.allowed :
               i # j => hs.call.allowed[i] # hs.call.allowed[j]


(***************************************************************************)
(* get_alb_healthy_targets: the load balancer has one target group per     *)
(* listener port; describe-target-health lists each group's targets with   *)
(* their health state, a target without a Port of its own taking the       *)
(* group's.  The caller's remote_port is an Option: 0 stands for None.     *)
(***************************************************************************)
\* targets one describe-target-health call lists
MaxDescs == 2

HealthStates == {"healthy", "unhealthy"}
FetchFailModes == {"none", "describe-target-groups", "describe-target-health"}
RemotePorts == {0, TargetPort(1), TargetPort(2)}

\* the k-th target of group g
DescId(g, k) == 10 * g + k

\* the descriptions group g can hold: a target listens on the group's port
\* (no Port of its own) or on the other group's
DescLists(g) ==
    UNION {{[k \in 1..n |-> [state |-> f[k].state, id |-> DescId(g, k),
                             port |-> f[k].port]] :
               f \in [1..n -> [state : HealthStates,
                               port : {Absent, TargetPort(3 - g)}]]} :
           n \in 0..MaxDescs}

LoadBalancers ==
    {<<[port |-> TargetPort(1), descs |-> d1], [port |-> TargetPort(2), descs |-> d2]>> :
        d1 \in DescLists(1), d2 \in DescLists(2)}

\* if state != "healthy" { continue; }
is_healthy_any(desc) == desc.state \in HealthStates
is_healthy(desc) == desc.state = "healthy"

\* desc["Target"]["Port"].as_u64().unwrap_or(tg_port as u64) as u16
port_of(desc, tg_port) == AsU16(IF desc.port = Absent THEN tg_port ELSE desc.port)

\* the (id, port) pushed for a target, with what the later queries about the
\* target's network interface return
Pushed_target(desc, tg_port) ==
    [TargetOf(1, "any-from-a") EXCEPT !.id = desc.id, !.port = port_of(desc, tg_port)]

RECURSIVE ScanDescs(_, _, _, _)
ScanDescs(descs, tg_port, remote_port, acc) ==
    IF descs = <<>> THEN acc
    ELSE LET desc == Head(descs)
         IN  ScanDescs(Tail(descs), tg_port, remote_port,
                 IF ~is_healthy(desc) THEN acc
                 ELSE IF remote_port # 0 /\ port_of(desc, tg_port) # remote_port THEN acc
                 ELSE Append(acc, Pushed_target(desc, tg_port)))

RECURSIVE ScanGroups(_, _, _)
ScanGroups(tgs, remote_port, acc) ==
    IF tgs = <<>> THEN acc
    ELSE ScanGroups(Tail(tgs), remote_port,
                    ScanDescs(Head(tgs).descs, Head(tgs).port, remote_port, acc))

get_alb_healthy_targets(tgs, remote_port, q) ==
    IF q = "describe-target-groups" THEN Err("AwsCli")
    ELSE IF q = "describe-target-health" /\ tgs # <<>> THEN Err("AwsCli")
    ELSE Ok(ScanGroups(tgs, remote_port, <<>>))

TargetsInit ==
    /\ lb \in {[NoLb EXCEPT !.tgs = tgs] : tgs \in LoadBalancers}
    /\ inv \in BoundedSeq({[name |-> <<"web">>, state |-> "running", ping |-> "Online",
                            private_ip |-> NoIp, public_ip |-> NoIp,
                            sgs |-> {"sg-a"}]}, 1)
    /\ targets = <<>>
    /\ hs = IdleHop
    /\ input = NoInput
    /\ dns = NoDns
    /\ alb = NoAlb
    /\ path = NoPath
    /\ TunnelIdle
    /\ AppIdle

\* try_alb_tunnel / try_alb_tunnel_bg up to the loop: the host matched the
\* load balancer, get_alb_healthy_targets(..).unwrap_or_default()
AlbFetch(flow, fail, remote_port, q) ==
    /\ hs.pc = "idle"
    /\ lb.fetched = "no"
    /\ LET r == get_alb_healthy_targets(lb.tgs, remote_port, q)
           ts == unwrap_or_default(r)
       IN  /\ lb' = [lb EXCEPT !.remote_port = remote_port,
                               !.fetched = IF r.ok THEN "ok" ELSE "err"]
           /\ targets' = ts
           /\ hs' = IF ts = <<>>
                    THEN [hs EXCEPT !.flow = flow, !.fail = fail, !.pc = "done",
                                    !.out = "fallback"]
                    ELSE [hs EXCEPT !.flow = flow, !.fail = fail, !.pc = "loop", !.idx = 1]
    /\ UNCHANGED inv
    /\ UNCHANGED <<tunnelVars, input, dns, alb, path, appVars>>

TargetsNext ==
    \/ \E flow \in {"cli", "tui"}, fail \in HopFailModes, rp \in RemotePorts,
          q \in FetchFailModes : AlbFetch(flow, fail, rp, q)
    \/ TryAlbTarget
    \/ TryAlbTargetBg

SpecTargets == TargetsInit /\ [][TargetsNext]_vars

\* every target of the load balancer, group by group, as <<state, id, port>>
AllDescs ==
    LET of(g) == [k \in DOMAIN lb.tgs[g].descs |->
                     [state |-> lb.tgs[g].descs[k].state,
                      id |-> lb.tgs[g].descs[k].id,
                      port |-> IF lb.tgs[g].descs[k].port = Absent
                               THEN lb.tgs[g].port ELSE lb.tgs[g].descs[k].port]]
    IN  of(1) \o of(2)

Wanted(d) ==
    /\ d.state = "healthy"
    /\ lb.remote_port # 0 => d.port = lb.remote_port

\* C21: the targets a successful fetch returned are the healthy targets of
\* the load balancer, only those on the caller's remote port when one was
\* given, in target-group then target order; the target the tunnel is built
\* to is one of them, so never an unhealthy one.
C21_OnlyHealthyTargets ==
    /\ lb.fetched = "ok" =>
           [i \in DOMAIN targets |->
               [state |-> "healthy", id |-> targets[i].id, port |-> targets[i].port]]
             = SelectSeq(AllDescs, Wanted)
    /\ (lb.fetched # "no" /\ hs.out = "hop") =>
           \E i \in DOMAIN AllDescs :
               /\ AllDescs[i].id = hs.target
               /\ AllDescs[i].port = hs.port
               /\ Wanted(AllDescs[i])

\* an unhealthy target on the wanted port comes first and was passed over:
\* the tunnel goes to the healthy one of the second group
C21_Witness ==
    /\ lb.fetched = "ok"
    /\ lb.remote_port = TargetPort(1)
    /\ Len(lb.tgs[1].descs) >= 1
    /\ lb.tgs[1].descs[1].state = "unhealthy"
    /\ lb.tgs[1].descs[1].port = Absent
    /\ hs.out = "hop"
    /\ hs.target = DescId(2, 1)

(***************************************************************************)
(* The Tunnels and Tools pages of the TUI.  The foreground thread runs the *)
(* event loop of run_tui: one key handler or one tick (tick_spinner, then  *)
(* poll_bg) at a time.  Every std::thread::spawn is a worker; a worker     *)
(* ends by sending one BgMessage.  Of the three tunnel wizards the         *)
(* by-instance one (start_tunnel_by_pattern) is kept, the other two end in *)
(* the same spawn-and-send.                                                *)
(*                                                                         *)
(* Tab and the cursor keys of the Tools page work whenever no popup is     *)
(* open and change nothing but the page and the cursor, and Left / Right   *)
(* on a Confirm popup changes nothing but its selected_yes: the page, the  *)
(* tool under the cursor and selected_yes are therefore inputs of the      *)
(* handler of the key that follows.                                        *)
(***************************************************************************)
\* the threads the model follows: a worker holds one from its spawn until
\* its message is read
Threads == {"t1", "t2"}
\* the last process id the processes of this part can get
MaxAppPid == 3
\* the latency every probe of this part measures
ProbeMs == 5

opVars == <<op, attempts, result, detected, fresh>>

Popup(kind, tag, idx) ==
    [kind |-> kind, tag |-> tag, idx |-> idx, named |-> <<>>, value |-> <<>>]
\* what the message of the stop dialog names of a tunnel: its local port and
\* its instance
NameOf(t) == <<t.local_port, t.instance_id>>

\* BgMessage::TunnelsLoaded(tunnels), BgMessage::TunnelStarted(Ok(tp) | Err(e))
TunnelsLoaded(ts) == [kind |-> "TunnelsLoaded", ok |-> TRUE, tunnels |-> ts, tp |-> NoHandle]
TunnelStarted(ok, tp) == [kind |-> "TunnelStarted", ok |-> ok, tunnels |-> <<>>, tp |-> tp]
\* BgMessage::InstancesLoaded(Ok(instances) | Err(e)), BgMessage::ActionDone(Ok(msg) | Err(e))
InstancesLoaded(r) ==
    [kind |-> "InstancesLoaded", ok |-> r.ok, tunnels |-> <<>>, tp |-> NoHandle,
     instances |-> r.val]
ActionDone(ok) == [kind |-> "ActionDone", ok |-> ok, tunnels |-> <<>>, tp |-> NoHandle]

DetectWorker == [job |-> "detect", pc |-> "scan", lport |-> 0, rport |-> 0, pid |-> 0, snap |-> <<>>]
StartWorker(lp, rp) == [job |-> "start", pc |-> "spawn", lport |-> lp, rport |-> rp, pid |-> 0, snap |-> <<>>]
\* the thread of refresh_instances, and the thread of action_start or of
\* handle_confirm with the id of the instance it was given
InstWorker == [job |-> "instances", pc |-> "run", lport |-> 0, rport |-> 0, pid |-> 0, snap |-> <<>>]
ActionWorker(job, id) ==
    [job |-> job, pc |-> "run", lport |-> 0, rport |-> 0, pid |-> 0, snap |-> <<>>, id |-> id]

RemoveAt(s, i) == [k \in 1..(Len(s) - 1) |-> IF k < i THEN s[k] ELSE s[k + 1]]
Min(a, b) == IF a <= b THEN a ELSE b
saturating_sub(a, b) == IF a >= b THEN a - b ELSE 0

\* Vec::get(idx), Vec::remove(idx) with the 0-based idx of the code
get(v, idx) == IF idx < Len(v) THEN <<v[idx + 1]>> ELSE <<>>
remove(v, idx) == RemoveAt(v, idx + 1)

\* a thread can be spawned
CanSpawn == BagCardinality(workers) + Len(chan) < Cardinality(Threads)

spawn(ws, w) == ws (+) SetToBag({w})
exit(ws, w) == ws (-) SetToBag({w})
become(ws, w, v) == spawn(exit(ws, w), v)

\* App::refresh_tunnels
refresh_tunnels(ws) == spawn(ws, DetectWorker)
\* App::refresh_instances
refresh_instances(ws) == spawn(ws, InstWorker)

\* tunnel.rs stop_all_tunnels: stop every detected tunnel, then
\* pkill -f session-manager-plugin
RECURSIVE StopEach(_, _)
StopEach(hs_, ps) ==
    IF hs_ = <<>> THEN ps ELSE StopEach(Tail(hs_), stop_tunnel(Head(hs_).pid, ps))
stop_all_tunnels_nopkill(ps) == StopEach(detect_tunnels(0), ps)
stop_all_tunnels(ps) == {p \in StopEach(detect_tunnels(0), ps) : ~HasMarker(p)}

\* the blocking calls one run of stop_all_tunnels makes
StopAllCalls ==
    {"spawn ps", "spawn pkill"}
        \cup (IF \E p \in procs : HasMarker(p) /\ p.lport # 0 THEN {"test_port"} ELSE {})
        \cup (IF \E p \in procs : HasMarker(p) /\ p.lport # 0 /\ test_port(p.lport)
              THEN {"probe_remote"} ELSE {})

AppInit ==
    /\ procs = {}
    /\ listener = [port \in LPorts |-> Free]
    /\ nextPid = 1
    /\ op = IdleOp
    /\ attempts = <<>>
    /\ result = NoResult
    /\ detected = NotDetected
    /\ fresh = FALSE
    /\ PathIdle
    /\ HopIdle
    /\ app = NewApp
    /\ chan = <<>>
    /\ workers = SetToBag({DetectWorker})
    /\ fg = {}
    /\ reqs = <<>>

AppFrame == UNCHANGED <<opVars, pathVars, hopVars, reqs>>

(***************************************************************************)
(* Worker threads.                                                         *)
(***************************************************************************)
\* start_tunnel_by_pattern up to the spawn: find_instance_by_name or the
\* spawn fails and the error is sent, or the aws process is running
StartSpawn(w) ==
    /\ w.job = "start"
    /\ w.pc = "spawn"
    /\ \/ /\ nextPid <= MaxAppPid
          /\ procs' = procs \cup
                {make_ssm_cmd(nextPid, 1, NoHost, w.lport, w.rport)}
          /\ nextPid' = nextPid + 1
          /\ workers' = become(workers, w, [w EXCEPT !.pc = "wait", !.pid = nextPid])
          /\ chan' = chan
       \/ /\ workers' = exit(workers, w)
          /\ chan' = Append(chan, TunnelStarted(FALSE, NoHandle))
          /\ UNCHANGED <<procs, nextPid>>
    /\ UNCHANGED <<listener, app, fg>>
    /\ AppFrame

\* wait_and_probe returns: the port opened and answered, or it opened and
\* stayed silent, or it did not open before the timeout
StartProbe(w) ==
    /\ w.job = "start"
    /\ w.pc = "wait"
    /\ LET lp == w.lport
           pid == w.pid
       IN  IF test_port(lp) /\ Responds(lp)
           THEN /\ chan' = Append(chan, TunnelStarted(TRUE,
                         TunnelProcess(pid, lp, w.rport, NoHost, 1, TRUE, ProbeMs)))
                /\ UNCHANGED <<procs, listener>>
           ELSE /\ procs' = (IF test_port(lp) THEN OnNoResponse(pid, procs)
                             ELSE OnPortTimeout(pid, procs))
                /\ listener' = Listeners(procs')
                /\ chan' = Append(chan, TunnelStarted(FALSE, NoHandle))
    /\ workers' = exit(workers, w)
    /\ UNCHANGED <<nextPid, app, fg>>
    /\ AppFrame

\* the worker of refresh_tunnels runs detect_tunnels ...
DetectScan(w) ==
    /\ w.job = "detect"
    /\ w.pc = "scan"
    /\ workers' = become(workers, w,
                        [w EXCEPT !.pc = "send", !.snap = detect_tunnels(ProbeMs)])
    /\ UNCHANGED <<procs, listener, nextPid, app, chan, fg>>
    /\ AppFrame

\* ... and sends what it found
DetectSend(w) ==
    /\ w.job = "detect"
    /\ w.pc = "send"
    /\ chan' = Append(chan, TunnelsLoaded(w.snap))
    /\ workers' = exit(workers, w)
    /\ UNCHANGED <<procs, listener, nextPid, app, fg>>
    /\ AppFrame

(***************************************************************************)
(* The processes outside the program.                                      *)
(***************************************************************************)
\* the aws process launches its session-manager-plugin child, which binds
\* the local port when it is free
AppPluginUp ==
    /\ nextPid <= MaxAppPid
    /\ \E p \in procs, live \in BOOLEAN :
         /\ IsAws(p)
         /\ ~\E q \in procs : q.ppid = p.pid
         /\ listener[p.lport] = Free
         /\ procs' = procs \cup {PluginOf(p, nextPid, live)}
         /\ listener' = [listener EXCEPT ![p.lport] = nextPid]
    /\ nextPid' = nextPid + 1
    /\ UNCHANGED <<app, chan, workers, fg>>
    /\ AppFrame

\* a plugin whose aws parent is gone exits
AppProcExit ==
    /\ \E q \in procs :
         /\ ~IsAws(q)
         /\ q.ppid \notin Pids(procs)
         /\ procs' = procs \ {q}
         /\ listener' = Listeners(procs')
    /\ UNCHANGED <<nextPid, app, chan, workers, fg>>
    /\ AppFrame

(***************************************************************************)
(* tui/app.rs poll_bg, run from the tick of the event loop.                *)
(***************************************************************************)
\* InstancesLoaded: the list replaces the one held, or the error is shown. A
\* Result popup keeps its title in tag.
OnInstancesLoaded_clear(a, m) ==
    IF m.ok
    THEN [a EXCEPT !.instances = m.instances,
                   !.instance_selected = Min(@, saturating_sub(Len(m.instances), 1))]
    ELSE [a EXCEPT !.instances = <<>>, !.popup = Popup("Result", "Error", 0)]
OnInstancesLoaded(a, m) ==
    IF m.ok
    THEN [a EXCEPT !.instances = m.instances,
                   !.instance_selected = Min(@, saturating_sub(Len(m.instances), 1))]
    ELSE [a EXCEPT !.popup = Popup("Result", "Error", 0)]

\* one message of the channel
OnMessage_reprobe(a, m) ==
    IF m.kind = "TunnelsLoaded"
    THEN [a EXCEPT !.tunnels = m.tunnels,
                   !.tunnel_selected = Min(@, saturating_sub(Len(m.tunnels), 1))]
    ELSE IF m.ok
         THEN [a EXCEPT !.tunnels =
                            Append([k \in DOMAIN a.tunnels |->
                                       [a.tunnels[k] EXCEPT !.latency_ms = NoLatency]],
                                   m.tp),
                        !.popup = Popup("Result", "", 0)]
         ELSE [a EXCEPT !.popup = Popup("Result", "", 0)]
OnMessage_noclamp(a, m) ==
    IF m.kind = "InstancesLoaded" THEN OnInstancesLoaded(a, m)
    ELSE IF m.kind = "ActionDone"
    THEN [a EXCEPT !.popup = Popup("Result", IF m.ok THEN "Done" ELSE "Error", 0)]
    ELSE IF m.kind = "TunnelsLoaded"
    THEN [a EXCEPT !.tunnels = m.tunnels]
    ELSE IF m.ok
         THEN [a EXCEPT !.tunnels = Append(@, m.tp),
                        !.popup = Popup("Result", "", 0)]
         ELSE [a EXCEPT !.popup = Popup("Result", "", 0)]
OnMessage(a, m) ==
    IF m.kind = "InstancesLoaded" THEN OnInstancesLoaded(a, m)
    ELSE IF m.kind = "ActionDone"
    THEN [a EXCEPT !.popup = Popup("Result", IF m.ok THEN "Done" ELSE "Error", 0)]
    ELSE IF m.kind = "TunnelsLoaded"
    THEN [a EXCEPT !.tunnels = m.tunnels,
                   !.tunnel_selected = Min(@, saturating_sub(Len(m.tunnels), 1))]
    ELSE IF m.ok
         THEN [a EXCEPT !.tunnels = Append(@, m.tp),
                        !.popup = Popup("Result", "", 0)]
         ELSE [a EXCEPT !.popup = Popup("Result", "", 0)]

\* while let Ok(msg) = self.rx.try_recv()
RECURSIVE Drain(_, _)
Drain_first(a, q) == IF q = <<>> THEN a ELSE OnMessage(a, Head(q))
Drain(a, q) == IF q = <<>> THEN a ELSE Drain(OnMessage(a, Head(q)), Tail(q))
\* ActionDone(Ok) calls refresh_instances: the threads alive after the loop
RECURSIVE Respawn(_, _)
Respawn(ws, q) ==
    IF q = <<>> THEN ws
    ELSE Respawn(IF Head(q).kind = "ActionDone" /\ Head(q).ok
                 THEN refresh_instances(ws) ELSE ws, Tail(q))

\* a tick with messages waiting
PollBg ==
    /\ chan # <<>>
    /\ app' = Drain(app, chan)
    /\ workers' = Respawn(workers, chan)
    /\ chan' = <<>>
    /\ fg' = {}
    /\ UNCHANGED <<procs, listener, nextPid>>
    /\ AppFrame

\* the 75th tick: tick_spinner calls refresh_tunnels, whatever popup is open
TickRefresh ==
    /\ CanSpawn
    /\ workers' = refresh_tunnels(workers)
    /\ fg' = {}
    /\ UNCHANGED <<procs, listener, nextPid, app, chan>>
    /\ AppFrame

(***************************************************************************)
(* main.rs handle_global_key: an open popup takes the key, then the global *)
(* keys, then the handler of the current tab.                              *)
(***************************************************************************)
NoPopupOpen == app.popup.kind = "None"

\* tunnels.rs handle_key: Up / Down
KeyUpDown ==
    /\ NoPopupOpen
    /\ \/ /\ app.tunnel_selected > 0
          /\ app' = [app EXCEPT !.tunnel_selected = @ - 1]
       \/ /\ app.tunnel_selected + 1 < Len(app.tunnels)
          /\ app' = [app EXCEPT !.tunnel_selected = @ + 1]
    /\ fg' = {}
    /\ UNCHANGED <<procs, listener, nextPid, chan, workers>>
    /\ AppFrame

\* tunnels.rs handle_key: 'r'
KeyRefresh ==
    /\ NoPopupOpen
    /\ CanSpawn
    /\ workers' = refresh_tunnels(workers)
    /\ fg' = {}
    /\ UNCHANGED <<procs, listener, nextPid, app, chan>>
    /\ AppFrame

\* tunnels.rs handle_key: 'n', start_wizard_by_instance
KeyNewTunnel ==
    /\ NoPopupOpen
    /\ app' = [app EXCEPT !.popup = Popup("Input", "NewTunnelPattern", 0)]
    /\ fg' = {}
    /\ UNCHANGED <<procs, listener, nextPid, chan, workers>>
    /\ AppFrame

\* tunnels.rs handle_key: 'd', confirm_stop_tunnel
KeyStopTunnel ==
    /\ NoPopupOpen
    /\ get(app.tunnels, app.tunnel_selected) # <<>>
    /\ app' = [app EXCEPT !.popup =
                  [Popup("Confirm", "StopTunnel", app.tunnel_selected) EXCEPT
                      !.named = NameOf(app.tunnels[app.tunnel_selected + 1])]]
    /\ fg' = {}
    /\ UNCHANGED <<procs, listener, nextPid, chan, workers>>
    /\ AppFrame

\* tunnels.rs handle_key: 'A', confirm_stop_all
KeyStopAll ==
    /\ NoPopupOpen
    /\ app.tunnels # <<>>
    /\ app' = [app EXCEPT !.popup = Popup("Confirm", "StopAllTunnels", 0)]
    /\ fg' = {}
    /\ UNCHANGED <<procs, listener, nextPid, chan, workers>>
    /\ AppFrame

\* Esc on any popup; Enter on a Result or Loading popup
KeyClose ==
    /\ ~NoPopupOpen
    /\ app' = [app EXCEPT !.popup = NoPopup]
    /\ fg' = {}
    /\ UNCHANGED <<procs, listener, nextPid, chan, workers>>
    /\ AppFrame

\* Enter on the first two steps of the wizard: tunnels.rs handle_input
InputNext ==
    /\ app.popup.kind = "Input"
    /\ app.popup.tag \in {"NewTunnelPattern", "NewTunnelLocalPort"}
    /\ app' = [app EXCEPT !.popup =
                  Popup("Input", IF app.popup.tag = "NewTunnelPattern"
                                 THEN "NewTunnelLocalPort" ELSE "NewTunnelRemotePort", 0)]
    /\ fg' = {}
    /\ UNCHANGED <<procs, listener, nextPid, chan, workers>>
    /\ AppFrame

\* Enter on the last step: the Loading popup and the worker that starts the
\* tunnel
InputSubmit(lp, rp) ==
    /\ app.popup.kind = "Input"
    /\ app.popup.tag = "NewTunnelRemotePort"
    /\ CanSpawn
    /\ app' = [app EXCEPT !.popup = Popup("Loading", "", 0)]
    /\ workers' = spawn(workers, StartWorker(lp, rp))
    /\ fg' = {}
    /\ UNCHANGED <<procs, listener, nextPid, chan>>
    /\ AppFrame

\* Enter on a Confirm popup: tunnels.rs handle_confirm
ConfirmEnter(selected_yes) ==
    /\ app.popup.kind = "Confirm"
    /\ app.popup.tag \in {"StopTunnel", "StopAllTunnels"}
    /\ LET closed == [app EXCEPT !.popup = NoPopup]
           idx == app.popup.idx
           t == get(app.tunnels, idx)
       IN  IF ~selected_yes
           THEN /\ app' = closed
                /\ fg' = {}
                /\ UNCHANGED <<procs, listener>>
           ELSE IF app.popup.tag = "StopTunnel"
           THEN IF t # <<>>
                THEN /\ procs' = stop_tunnel(t[1].pid, procs)
                     /\ listener' = Listeners(procs')
                     /\ app' = [closed EXCEPT
                           !.tunnels = remove(app.tunnels, idx),
                           !.tunnel_selected =
                               Min(@, saturating_sub(Len(app.tunnels) - 1, 1))]
                     /\ fg' = {}
                ELSE /\ app' = closed
                     /\ fg' = {}
                     /\ UNCHANGED <<procs, listener>>
           ELSE /\ procs' = stop_all_tunnels(procs)
                /\ listener' = Listeners(procs')
                /\ app' = [closed EXCEPT !.tunnels = <<>>, !.tunnel_selected = 0]
                /\ fg' = StopAllCalls
    /\ UNCHANGED <<nextPid, chan, workers>>
    /\ AppFrame

(***************************************************************************)
(* tui/pages/tools.rs                                                      *)
(***************************************************************************)
\* Enter with the cursor on "Test Local Port": the Input popup
ToolTestPortAsk ==
    /\ NoPopupOpen
    /\ app' = [app EXCEPT !.popup = Popup("Input", "TestPort", 0)]
    /\ fg' = {}
    /\ UNCHANGED <<procs, listener, nextPid, chan, workers>>
    /\ AppFrame

\* Enter on that popup: handle_input tests the port and shows the result
ToolTestPort ==
    /\ app.popup.kind = "Input"
    /\ app.popup.tag = "TestPort"
    /\ app' = [app EXCEPT !.popup = Popup("Result", "", 0)]
    /\ fg' = {"test_port"}
    /\ UNCHANGED <<procs, listener, nextPid, chan, workers>>
    /\ AppFrame

\* Enter with the cursor on "Stop All Tunnels": execute_tool item 5
ToolStopAll ==
    /\ NoPopupOpen
    /\ CanSpawn
    /\ procs' = stop_all_tunnels(procs)
    /\ listener' = Listeners(procs')
    /\ app' = [app EXCEPT !.popup = Popup("Result", "", 0)]
    /\ workers' = refresh_tunnels(workers)
    /\ fg' = StopAllCalls
    /\ UNCHANGED <<nextPid, chan>>
    /\ AppFrame

AppNext ==
    \/ \E w \in BagToSet(workers) : StartSpawn(w)
    \/ \E w \in BagToSet(workers) : StartProbe(w)
    \/ \E w \in BagToSet(workers) : DetectScan(w)
    \/ \E w \in BagToSet(workers) : DetectSend(w)
    \/ AppPluginUp
    \/ AppProcExit
    \/ PollBg
    \/ TickRefresh
    \/ KeyUpDown
    \/ KeyRefresh
    \/ KeyNewTunnel
    \/ KeyStopTunnel
    \/ KeyStopAll
    \/ KeyClose
    \/ InputNext
    \/ \E lp \in LPorts, rp \in RPorts : InputSubmit(lp, rp)
    \/ \E selected_yes \in BOOLEAN : ConfirmEnter(selected_yes)
    \/ ToolTestPortAsk
    \/ ToolTestPort
    \/ ToolStopAll

SpecApp == AppInit /\ [][AppNext]_vars

(***************************************************************************)
(* Claims about the tunnel list of the TUI.                                *)
(***************************************************************************)

\* C13 (as claimed): a handle leaves App.tunnels only in a step after which
\* its process is no longer in the process table; no step drops a handle
\* whose process is still running.
C13_HandleDroppedOnlyWhenTerminated ==
    [][\A pid \in HandlePids(app.tunnels) \ HandlePids(app'.tunnels) :
           pid \notin Pids(procs')]_vars

\* C15 (as claimed): no handler run on the foreground thread (a key press,
\* a confirmation, a tool) makes a blocking call: no process spawn, no port
\* test, no remote probe; they are all left to the workers.
C15_ForegroundNeverBlocks == fg = {}

(***************************************************************************)
(* Tunnel starts requested at the same time for one local port: two runs   *)
(* of `awsx2 tunnel` (run_cli checks test_port, then calls                 *)
(* start_tunnel_by_pattern), two workers of the TUI wizard (which call     *)
(* start_tunnel_by_pattern at once), or one of each.  Each request is a    *)
(* thread of its own; a step is one of its calls.                          *)
(***************************************************************************)
Requests == 2

Request(e, lp, rp) ==
    [entry |-> e, pc |-> "check", lport |-> lp, rport |-> rp, pid |-> 0, out |-> "none"]

RaceInit ==
    /\ procs = {}
    /\ listener \in [LPorts -> {Free, ForeignLive}]
    /\ nextPid = 1
    /\ op = IdleOp
    /\ attempts = <<>>
    /\ result = NoResult
    /\ detected = NotDetected
    /\ fresh = FALSE
    /\ PathIdle
    /\ HopIdle
    /\ app = NewApp
    /\ chan = <<>>
    /\ workers = EmptyBag
    /\ fg = {}
    /\ \E lp \in LPorts, rp \in RPorts :
         reqs \in [1..Requests -> {Request(e, lp, rp) : e \in DirectEntries}]

RaceFrame == UNCHANGED <<opVars, pathVars, hopVars, app, chan, workers, fg>>

\* run_cli: if tunnel::test_port(local_port) { "already in use"; return }
\* the wizard of the TUI has no such test
ReqCheck(r) ==
    /\ reqs[r].pc = "check"
    /\ reqs' = IF ChecksPortFirst(reqs[r].entry) /\ test_port(reqs[r].lport)
               THEN [reqs EXCEPT ![r].pc = "done", ![r].out = "refused"]
               ELSE [reqs EXCEPT ![r].pc = "spawn"]
    /\ UNCHANGED <<procs, listener, nextPid>>
    /\ RaceFrame

\* start_tunnel_by_pattern up to the spawn
ReqSpawn(r) ==
    /\ reqs[r].pc = "spawn"
    /\ \/ /\ nextPid <= MaxPid
          /\ procs' = procs \cup
                {make_ssm_cmd(nextPid, 1, NoHost, reqs[r].lport, reqs[r].rport)}
          /\ nextPid' = nextPid + 1
          /\ reqs' = [reqs EXCEPT ![r].pc = "wait", ![r].pid = nextPid]
       \/ /\ reqs' = [reqs EXCEPT ![r].pc = "done", ![r].out = "failed"]
          /\ UNCHANGED <<procs, nextPid>>
    /\ UNCHANGED listener
    /\ RaceFrame

\* wait_and_probe returns
ReqProbe(r) ==
    /\ reqs[r].pc = "wait"
    /\ LET lp == reqs[r].lport
           pid == reqs[r].pid
       IN  IF test_port(lp) /\ Responds(lp)
           THEN /\ reqs' = [reqs EXCEPT ![r].pc = "done", ![r].out = "handle"]
                /\ UNCHANGED <<procs, listener>>
           ELSE /\ procs' = (IF test_port(lp) THEN OnNoResponse(pid, procs)
                             ELSE OnPortTimeout(pid, procs))
                /\ listener' = Listeners(procs')
                /\ reqs' = [reqs EXCEPT ![r].pc = "done", ![r].out = "failed"]
    /\ UNCHANGED nextPid
    /\ RaceFrame

\* the aws process launches its plugin, which binds the port when it is free
RacePluginUp ==
    /\ nextPid <= MaxPid
    /\ \E p \in procs, live \in BOOLEAN :
         /\ IsAws(p)
         /\ ~\E q \in procs : q.ppid = p.pid
         /\ listener[p.lport] = Free
         /\ procs' = procs \cup {PluginOf(p, nextPid, live)}
         /\ listener' = [listener EXCEPT ![p.lport] = nextPid]
    /\ nextPid' = nextPid + 1
    /\ UNCHANGED reqs
    /\ RaceFrame

\* a plugin whose aws parent is gone exits
RaceProcExit ==
    /\ \E q \in procs :
         /\ ~IsAws(q)
         /\ q.ppid \notin Pids(procs)
         /\ procs' = procs \ {q}
         /\ listener' = Listeners(procs')
    /\ UNCHANGED <<nextPid, reqs>>
    /\ RaceFrame

RaceNext ==
    \/ \E r \in DOMAIN reqs : ReqCheck(r)
    \/ \E r \in DOMAIN reqs : ReqSpawn(r)
    \/ \E r \in DOMAIN reqs : ReqProbe(r)
    \/ RacePluginUp
    \/ RaceProcExit

SpecRace == RaceInit /\ [][RaceNext]_vars

\* C16 (as claimed): of the starts requested at the same time for one local
\* port, at most one spawns a forwarding process and at most one ends with
\* an active handle.
C16_OneStartPerPort ==
    \A lp \in LPorts :
        /\ Cardinality({r \in DOMAIN reqs : reqs[r].lport = lp /\ reqs[r].pid # 0}) <= 1
        /\ Cardinality({r \in DOMAIN reqs : reqs[r].lport = lp /\ reqs[r].out = "handle"}) <= 1

\* poll_bg ran and one of the messages it handled was TunnelsLoaded
Redetected ==
    /\ chan' = <<>>
    /\ \E k \in DOMAIN chan : chan[k].kind = "TunnelsLoaded"

\* the handles poll_bg pushes in this step
Pushed ==
    IF chan' = <<>>
    THEN {chan[k].tp : k \in {j \in DOMAIN chan : chan[j].kind = "TunnelStarted" /\ chan[j].ok}}
    ELSE {}

\* C18: unless the step is a poll_bg that handles a TunnelsLoaded message,
\* every handle in App.tunnels after the step is a handle that was in it
\* before, with the same port_open and latency_ms, or one that poll_bg has
\* just pushed as it was created.
C18_FlagsFixedUntilRedetection ==
    [][Redetected \/
       /\ Range(app'.tunnels) \subseteq Range(app.tunnels) \cup Pushed
       /\ \A i \in DOMAIN app.tunnels, j \in DOMAIN app'.tunnels :
              app.tunnels[i].pid = app'.tunnels[j].pid =>
                  /\ app'.tunnels[j].port_open = app.tunnels[i].port_open
                  /\ app'.tunnels[j].latency_ms = app.tunnels[i].latency_ms]_vars

\* C18 witness: a listed handle still says that its port is open and
\* answering after the port was closed; nothing has re-detected since
C18_Witness ==
    \E i \in DOMAIN app.tunnels :
        /\ app.tunnels[i].port_open
        /\ app.tunnels[i].latency_ms # NoLatency
        /\ ~test_port(app.tunnels[i].local_port)
        /\ app.popup.kind = "None"

(***************************************************************************)
(* Stopping tunnels left behind by earlier runs: the TUI starts over a     *)
(* process table that holds forwarding processes it did not create, one of *)
(* them with launch parameters detect_tunnels cannot parse.                *)
(***************************************************************************)
StopInit ==
    /\ procs \in {ps \in SUBSET LeftBehind : \A p, q \in ps : p.pid = q.pid => p = q}
    /\ listener \in [LPorts -> {Free, ForeignLive}
                                   \cup {p.pid : p \in {q \in procs : HasMarker(q) /\ q.lport # 0}}]
    /\ nextPid = MaxPid + 1
    /\ op = IdleOp
    /\ attempts = <<>>
    /\ result = NoResult
    /\ detected = NotDetected
    /\ fresh = FALSE
    /\ PathIdle
    /\ HopIdle
    /\ app = NewApp
    /\ chan = <<>>
    /\ workers = SetToBag({DetectWorker})
    /\ fg = {}
    /\ reqs = <<>>

StopNext ==
    \/ \E w \in BagToSet(workers) : DetectScan(w)
    \/ \E w \in BagToSet(workers) : DetectSend(w)
    \/ AppProcExit
    \/ PollBg
    \/ TickRefresh
    \/ KeyUpDown
    \/ KeyRefresh
    \/ KeyStopTunnel
    \/ KeyStopAll
    \/ KeyClose
    \/ \E selected_yes \in BOOLEAN : ConfirmEnter(selected_yes)
    \/ ToolStopAll

SpecStop == StopInit /\ [][StopNext]_vars

\* the step is a bulk stop: handle_confirm on StopAllTunnels, or the Tools item
BulkStopStep == "spawn pkill" \in fg' /\ app' # app

\* the step is the confirmed stop of the tunnel the dialog names
SingleStopStep ==
    /\ app.popup.kind = "Confirm"
    /\ app.popup.tag = "StopTunnel"
    /\ app'.popup = NoPopup
    /\ Len(app'.tunnels) = Len(app.tunnels) - 1

\* C24: a bulk stop takes every forwarding process out of the process table,
\* the detected ones by their process id and the rest, those detect_tunnels
\* could not parse included, by the kill by name, and touches no other
\* process; a single stop signals the process id of the handle at the
\* dialog's index and no other process.
C24_BulkStopLeavesNoPlugin ==
    [][/\ BulkStopStep =>
            /\ \A p \in procs' : ~HasMarker(p)
            /\ procs' = {p \in procs : ~HasMarker(p)}
       /\ SingleStopStep =>
            procs' = {p \in procs : p.pid # app.tunnels[app.popup.idx + 1].pid}]_vars

\* after a bulk stop the launcher of a tunnel is still there, its plugins are
\* gone, and a scan made before the stop still names one of them
C24_Witness ==
    /\ "spawn pkill" \in fg
    /\ app.tunnels = <<>>
    /\ \E p \in procs : IsAws(p)
    /\ \A p \in procs : ~HasMarker(p)
    /\ \E w \in BagToSet(workers) : w.pc = "send" /\ w.snap # <<>>

(***************************************************************************)
(* tunnel.rs parse_tunnel_line, from the text of the line: the JSON        *)
(* objects that follow the plugin's name, each read for "Target" and for   *)
(* the port parameters, at its top level or under "Parameters".  A JSON    *)
(* key is a field holding <<>> when the object lacks the key and <<v>>     *)
(* when it has it; a port array is given by its first string, a string by  *)
(* its characters.                                                         *)
(***************************************************************************)
JObj(target, parameters, local, remote, host) ==
    [Target |-> target, Parameters |-> parameters, localPortNumber |-> local,
     portNumber |-> remote, host |-> host]

\* the session object the plugin gets first: none of the keys
SessionObj == JObj(<<>>, <<>>, <<>>, <<>>, <<>>)

Digit(c) ==
    CASE c = "0" -> 0 [] c = "1" -> 1 [] c = "2" -> 2 [] c = "3" -> 3 [] c = "4" -> 4
      [] c = "5" -> 5 [] c = "6" -> 6 [] c = "7" -> 7 [] c = "8" -> 8 [] c = "9" -> 9
      [] OTHER -> -1

\* the decimal value of the characters, -1 when one of them is no digit
RECURSIVE Decimal(_, _)
Decimal(s, acc) ==
    IF s = <<>> THEN acc
    ELSE IF Digit(Head(s)) < 0 THEN -1
    ELSE Decimal(Tail(s), 10 * acc + Digit(Head(s)))

\* p.parse::<u16>().unwrap_or(0)
parse_or_0(s) ==
    LET v == IF s = <<>> THEN -1 ELSE Decimal(s, 0)
    IN  IF v < 0 \/ v > 65535 THEN 0 ELSE v

\* val.get("Parameters").unwrap_or(&val)
params_of_toplevel(val) == val
params_of(val) == IF val.Parameters # <<>> THEN val.Parameters[1] ELSE val

\* the loop over extract_json_objects(after): a later object overwrites what
\* an earlier one set
RECURSIVE ExtractParams(_, _)
ExtractParams(objs, acc) ==
    IF objs = <<>> THEN acc
    ELSE LET val == Head(objs)
             params == params_of(val)
         IN  ExtractParams(Tail(objs),
                 [instance_id |-> IF val.Target # <<>> THEN val.Target[1]
                                  ELSE acc.instance_id,
                  local_port |-> IF params.localPortNumber # <<>>
                                 THEN parse_or_0(params.localPortNumber[1])
                                 ELSE acc.local_port,
                  remote_port |-> IF params.portNumber # <<>>
                                  THEN parse_or_0(params.portNumber[1])
                                  ELSE acc.remote_port,
                  remote_host |-> IF params.host # <<>> THEN params.host[1]
                                  ELSE acc.remote_host])

\* parse_tunnel_line(line, pid) for the line of process p
parse_line(p, ms) ==
    LET f == ExtractParams(p.args,
                 [instance_id |-> 0, local_port |-> 0, remote_port |-> 0,
                  remote_host |-> NoHost])
    IN  parse_tunnel_line([p EXCEPT !.target = f.instance_id, !.lport = f.local_port,
                                    !.rport = f.remote_port, !.host = f.remote_host], ms)

\* what a command line can carry under localPortNumber (no key, or the text
\* of the array's first string) and under portNumber, with the port each
\* one stands for (0: no port)
LocalPortTexts ==
    {[arr |-> <<<<"8", "0", "8", "0">>>>, value |-> 8080],
     [arr |-> <<<<"0">>>>, value |-> 0],
     [arr |-> <<<<"p", "o", "r", "t">>>>, value |-> 0],
     [arr |-> <<<<"9", "9", "9", "9", "9">>>>, value |-> 0],
     [arr |-> <<>>, value |-> 0]}
RemotePortTexts ==
    {[text |-> <<"8", "0", "0", "0">>, value |-> 8000],
     [text |-> <<"4", "4", "3">>, value |-> 443],
     [text |-> <<"6", "5", "5", "3", "5">>, value |-> 65535]}

\* the objects of a plugin line for the launch parameters, in either form
Inlined(target, local, remote, host) ==
    <<JObj(<<target>>, <<>>, local, remote, host)>>
Nested(target, local, remote, host) ==
    <<JObj(<<target>>, <<JObj(<<>>, <<>>, local, remote, host)>>, <<>>, <<>>, <<>>)>>

\* a plugin process with its line: the fields are what it was launched with,
\* args is what ps prints after the plugin's name
PluginLines ==
    {[pid |-> 1, ppid |-> 0, argv |-> <<"session-manager-plugin">>, target |-> 1,
      host |-> h, lport |-> l.value, rport |-> r.value, live |-> live,
      form |-> form,
      args |-> pre \o (IF form = "inlined"
                       THEN Inlined(1, l.arr, <<r.text>>,
                                    IF h = NoHost THEN <<>> ELSE <<h>>)
                       ELSE Nested(1, l.arr, <<r.text>>,
                                   IF h = NoHost THEN <<>> ELSE <<h>>))] :
        h \in {NoHost, "h"}, l \in LocalPortTexts, r \in RemotePortTexts,
        live \in BOOLEAN, form \in {"inlined", "nested"},
        pre \in {<<>>, <<SessionObj>>}}

ParseInit ==
    /\ procs \in {{p} : p \in PluginLines}
    /\ listener \in [LPorts -> {Free, ForeignLive, 1}]
    /\ nextPid = 2
    /\ op = IdleOp
    /\ attempts = <<>>
    /\ result = NoResult
    /\ detected = NotDetected
    /\ fresh = FALSE
    /\ PathIdle
    /\ HopIdle
    /\ AppIdle

\* detect_tunnels over the one line
ParseNow ==
    /\ ~detected.ran
    /\ \E ms \in Latencies, p \in procs :
         detected' = [handles |-> parse_line(p, ms), ran |-> TRUE, after |-> FALSE]
    /\ UNCHANGED <<procs, listener, nextPid, op, attempts, result, fresh>>
    /\ UNCHANGED <<pathVars, hopVars, appVars>>

SpecParse == ParseInit /\ [][ParseNow]_vars

\* C25: the handle parsed from a plugin line carries the target, local port,
\* remote port and remote host the process was launched with, whether the
\* port parameters are at the top level of the JSON object or under
\* "Parameters"; a line whose local port text stands for no port, or that has
\* none, gives no handle.
C25_SameFieldsInlinedOrNested ==
    detected.ran =>
        \A p \in procs :
            IF p.lport = 0 THEN detected.handles = <<>>
            ELSE /\ Len(detected.handles) = 1
                 /\ detected.handles[1].pid = p.pid
                 /\ detected.handles[1].instance_id = p.target
                 /\ detected.handles[1].local_port = p.lport
                 /\ detected.handles[1].remote_port = p.rport
                 /\ detected.handles[1].remote_host = p.host

\* a handle with a remote host was parsed from the nested form that follows
\* the session object
C25_Witness ==
    /\ detected.ran
    /\ Len(detected.handles) = 1
    /\ detected.handles[1].remote_host = "h"
    /\ detected.handles[1].remote_port = 443
    /\ \E p \in procs : p.form = "nested" /\ Len(p.args) = 2

(***************************************************************************)
(* The Instances page of the TUI: tui/pages/instances.rs over the list of  *)
(* instances the App holds. The account is inv; a start-instances or       *)
(* stop-instances call that succeeds changes the state of its instance     *)
(* there. The text of the filter is a sequence of typed pieces, each a     *)
(* word of a name; the instance type is not modelled and no piece is part  *)
(* of an id.                                                               *)
(***************************************************************************)
\* the pieces a filter can hold
MaxFilter == 1
FilterKeys == {"web", "Bastion"}
InstFailModes == {"none", "ec2", "ssm"}

\* the accounts: a web server and a bastion, each running or stopped
Accounts ==
    {<<[name |-> <<"web">>, state |-> s1, ping |-> "Online", private_ip |-> NoIp,
        public_ip |-> NoIp, sgs |-> {}],
       [name |-> <<"Bastion">>, state |-> s2, ping |-> "Online", private_ip |-> NoIp,
        public_ip |-> NoIp, sgs |-> {}]>> : s1 \in States, s2 \in States}

\* str::contains over pieces
contains_seq(text, pat) ==
    \E k \in 0..(Len(text) - Len(pat)) :
        \A j \in 1..Len(pat) : text[k + j] = pat[j]

\* App::filtered_instances, App::selected_instance
filtered_instances(a) ==
    LET filter == to_lowercase(a.instance_filter)
        Shown(i) == filter = <<>> \/ contains_seq(to_lowercase(i.name), filter)
    IN  SelectSeq(a.instances, Shown)
selected_instance(a) == get(filtered_instances(a), a.instance_selected)

\* run_tui: a new App, refresh_instances and refresh_tunnels
InstInit ==
    /\ procs = {}
    /\ listener = [port \in LPorts |-> Free]
    /\ nextPid = 1
    /\ op = IdleOp
    /\ attempts = <<>>
    /\ result = NoResult
    /\ detected = NotDetected
    /\ fresh = FALSE
    /\ input = NoInput
    /\ dns = NoDns
    /\ inv \in Accounts
    /\ alb = NoAlb
    /\ path = NoPath
    /\ HopIdle
    /\ app = NewApp
    /\ chan = <<>>
    /\ workers = refresh_tunnels(refresh_instances(EmptyBag))
    /\ fg = {}
    /\ reqs = <<>>

InstFrame ==
    UNCHANGED <<procs, listener, nextPid, opVars, input, dns, alb, path, hopVars, reqs>>

\* the thread of refresh_instances runs list_instances ...
InstancesScan(w, fail) ==
    /\ w.job = "instances"
    /\ w.pc = "run"
    /\ workers' = become(workers, w,
                        [w EXCEPT !.pc = "send", !.snap = list_instances(fail)])
    /\ UNCHANGED <<inv, app, chan, fg>>
    /\ InstFrame

\* ... and sends its result
InstancesSend(w) ==
    /\ w.job = "instances"
    /\ w.pc = "send"
    /\ chan' = Append(chan, InstancesLoaded(w.snap))
    /\ workers' = exit(workers, w)
    /\ UNCHANGED <<inv, app, fg>>
    /\ InstFrame

\* the thread of action_start or of handle_confirm: aws ec2 start-instances
\* or stop-instances and the send
ActionRun(w, ok) ==
    /\ w.job \in {"start_instance", "stop_instance"}
    /\ inv' = IF ok /\ w.id \in DOMAIN inv
              THEN [inv EXCEPT ![w.id].state =
                        IF w.job = "start_instance" THEN "running" ELSE "stopped"]
              ELSE inv
    /\ chan' = Append(chan, ActionDone(ok))
    /\ workers' = exit(workers, w)
    /\ UNCHANGED <<app, fg>>
    /\ InstFrame

\* instances.rs handle_key while the filter is typed: Esc, Enter, Backspace,
\* a character
KeyFilterEdit(key, c) ==
    /\ NoPopupOpen
    /\ app.instance_filter_active
    /\ app' = CASE key = "Esc" ->
                     [app EXCEPT !.instance_filter_active = FALSE,
                                 !.instance_filter = <<>>]
                [] key = "Enter" -> [app EXCEPT !.instance_filter_active = FALSE]
                [] key = "Backspace" ->
                     [app EXCEPT !.instance_filter =
                          IF @ = <<>> THEN @ ELSE SubSeq(@, 1, Len(@) - 1)]
                [] OTHER ->
                     [app EXCEPT !.instance_filter = Append(@, c),
                                 !.instance_selected = 0]
    /\ key = "Char" => Len(app.instance_filter) < MaxFilter
    /\ fg' = {}
    /\ UNCHANGED <<inv, chan, workers>>
    /\ InstFrame

\* instances.rs handle_key: Up, Down, 'g', 'G', '/', Esc
KeyInstMove(key) ==
    /\ NoPopupOpen
    /\ ~app.instance_filter_active
    /\ LET count == Len(filtered_instances(app))
       IN  app' = CASE key = "Up" ->
                         [app EXCEPT !.instance_selected = IF @ > 0 THEN @ - 1 ELSE @]
                    [] key = "Down" ->
                         [app EXCEPT !.instance_selected =
                              IF @ + 1 < count THEN @ + 1 ELSE @]
                    [] key = "g" -> [app EXCEPT !.instance_selected = 0]
                    [] key = "G" ->
                         [app EXCEPT !.instance_selected = saturating_sub(count, 1)]
                    [] key = "/" ->
                         [app EXCEPT !.instance_filter_active = TRUE,
                                     !.instance_filter = <<>>]
                    [] OTHER -> [app EXCEPT !.instance_filter = <<>>]
    /\ fg' = {}
    /\ UNCHANGED <<inv, chan, workers>>
    /\ InstFrame

\* instances.rs handle_key: 'r'
KeyInstRefresh ==
    /\ NoPopupOpen
    /\ ~app.instance_filter_active
    /\ CanSpawn
    /\ workers' = refresh_instances(workers)
    /\ fg' = {}
    /\ UNCHANGED <<inv, app, chan>>
    /\ InstFrame

\* instances.rs handle_key: 's', action_start
KeyInstStart ==
    /\ NoPopupOpen
    /\ ~app.instance_filter_active
    /\ CanSpawn
    /\ LET inst == selected_instance(app)
       IN  workers' = IF inst # <<>>
                      THEN spawn(workers, ActionWorker("start_instance", inst[1].id))
                      ELSE workers
    /\ fg' = {}
    /\ UNCHANGED <<inv, app, chan>>
    /\ InstFrame

\* instances.rs handle_key: 'S' and 'f', action_stop
KeyInstStop(force) ==
    /\ NoPopupOpen
    /\ ~app.instance_filter_active
    /\ app' = IF selected_instance(app) # <<>>
              THEN [app EXCEPT !.popup =
                       Popup("Confirm",
                             IF force THEN "ForceStopInstance" ELSE "StopInstance", 0)]
              ELSE app
    /\ fg' = {}
    /\ UNCHANGED <<inv, chan, workers>>
    /\ InstFrame

\* Enter on that Confirm popup: instances.rs handle_confirm
ConfirmInstance(selected_yes) ==
    /\ app.popup.kind = "Confirm"
    /\ app.popup.tag \in {"StopInstance", "ForceStopInstance"}
    /\ selected_yes => CanSpawn
    /\ app' = [app EXCEPT !.popup = NoPopup]
    /\ LET inst == selected_instance(app)
       IN  workers' = IF selected_yes /\ inst # <<>>
                      THEN spawn(workers, ActionWorker("stop_instance", inst[1].id))
                      ELSE workers
    /\ fg' = {}
    /\ UNCHANGED <<inv, chan>>
    /\ InstFrame

InstNext ==
    \/ \E w \in BagToSet(workers), fail \in InstFailModes : InstancesScan(w, fail)
    \/ \E w \in BagToSet(workers) : InstancesSend(w)
    \/ \E w \in BagToSet(workers), ok \in BOOLEAN : ActionRun(w, ok)
    \/ \E w \in BagToSet(workers) : DetectScan(w)
    \/ \E w \in BagToSet(workers) : DetectSend(w)
    \/ PollBg
    \/ TickRefresh
    \/ KeyClose
    \/ \E key \in {"Esc", "Enter", "Backspace", "Char"}, c \in FilterKeys :
           KeyFilterEdit(key, c)
    \/ \E key \in {"Up", "Down", "g", "G", "/", "Esc"} : KeyInstMove(key)
    \/ KeyInstRefresh
    \/ KeyInstStart
    \/ \E force \in BOOLEAN : KeyInstStop(force)
    \/ \E selected_yes \in BOOLEAN : ConfirmInstance(selected_yes)

SpecInstances == InstInit /\ [][InstNext]_vars

\* the list of the last successful InstancesLoaded of a queue
RECURSIVE LastLoaded(_, _)
LastLoaded(q, held) ==
    IF q = <<>> THEN held
    ELSE LastLoaded(Tail(q),
                    IF Head(q).kind = "InstancesLoaded" /\ Head(q).ok
                    THEN Head(q).instances ELSE held)

DeliverNext ==
    \/ \E w \in BagToSet(workers), fail \in InstFailModes : InstancesScan(w, fail)
    \/ \E w \in BagToSet(workers) : InstancesSend(w)
    \/ \E w \in BagToSet(workers), ok \in BOOLEAN : ActionRun(w, ok)
    \/ \E w \in BagToSet(workers) : DetectScan(w)
    \/ \E w \in BagToSet(workers) : DetectSend(w)
    \/ PollBg
    \/ TickRefresh
    \/ KeyClose
    \/ KeyInstRefresh
    \/ KeyInstStart
    \/ \E force \in BOOLEAN : KeyInstStop(force)
    \/ \E selected_yes \in BOOLEAN : ConfirmInstance(selected_yes)

SpecDeliver == InstInit /\ [][DeliverNext]_vars /\ WF_vars(PollBg)

\* the messages q[1] .. q[k] applied to a, first sent first
RECURSIVE AppliedUpTo(_, _, _)
AppliedUpTo(a, q, k) ==
    IF k = 0 THEN a ELSE OnMessage(AppliedUpTo(a, q, k - 1), q[k])

Reverse(q) == [k \in DOMAIN q |-> q[Len(q) + 1 - k]]

\* C27: a step either leaves the queue alone, or puts one message at its
\* end and leaves the App alone, or is the tick, which empties the queue
\* and leaves the App as the messages applied once each in the order they
\* were sent; and a queue that holds a message is emptied by a later tick.
C27_EveryMessageAppliedOnceInOrder ==
    /\ [][\/ chan' = chan
          \/ chan' # <<>> /\ chan' = Append(chan, chan'[Len(chan')]) /\ app' = app
          \/ chan' = <<>> /\ app' = AppliedUpTo(app, chan, Len(chan))]_vars
    /\ (chan # <<>> ~> chan = <<>>)

\* two messages wait whose order matters
C27_Witness ==
    /\ Len(chan) = 2
    /\ AppliedUpTo(app, chan, 2) # AppliedUpTo(app, Reverse(chan), 2)
    /\ AppliedUpTo(app, chan, 2) # AppliedUpTo(app, chan, 1)

(***************************************************************************)
(* Termination of a start operation. A start function runs on one thread,  *)
(* statement after statement: whenever the operation has a next step, a    *)
(* step of it is taken. The calls of the aws CLI that resolve the target   *)
(* are taken to return.                                                    *)
(***************************************************************************)
OpStep ==
    \/ ResolvePattern
    \/ ResolveDns
    \/ ResolveAlb
    \/ FindBastions
    \/ SpawnOk
    \/ SpawnFail
    \/ WaitOpen
    \/ WaitSleep
    \/ WaitTimeout
    \/ ProbeOk
    \/ ProbeFail
    \/ MultiRetry

SpecStart == TunnelInit /\ [][TunnelNext]_vars /\ WF_vars(OpStep)

\* the relays of the attempts of the multi-bastion loop
MultiRelays == {MultiAttempts[i].relay : i \in DOMAIN MultiAttempts}

StartOutcomes == {"ok", "PortClosed", "RemoteUnreachable"}
Worlds ==
    [fail : HopFailModes, via_hop : StartOutcomes,
     via_bastion : [1..MaxInst -> {"ok", "PortClosed"}]]

FlowInstances ==
    [name : Names, state : {"running"}, ping : Pings, private_ip : {NoIp},
     public_ip : {NoIp}, sgs : {{}} \cup {{g} : g \in SourceGroups}]

\* what a flow returns: a handle through a relay to a host and port, or an error
FlowHandle(via, relay, host, port) ==
    [kind |-> "Handle", via |-> via, relay |-> relay, host |-> host, port |-> port,
     err |-> ""]
FlowErr(e) ==
    [kind |-> "Err", via |-> "", relay |-> 0, host |-> 0, port |-> 0, err |-> e]
FlowNone == [kind |-> "None", via |-> "", relay |-> 0, host |-> 0, port |-> 0, err |-> ""]

\* tunnel.rs start_remote_tunnel_via_instance to target t through hop
via_instance(w, t, hop) ==
    IF w.via_hop = "ok" THEN FlowHandle("hop", hop, t.id, t.port) ELSE FlowErr(w.via_hop)

\* tunnel.rs start_url_tunnel_via_any_bastion, the loop: the first online
\* bastion whose start succeeds, from the k-th on
RECURSIVE any_bastion_from(_, _, _)
any_bastion_from(w, p, k) ==
    IF k > Len(p.cands) THEN FlowErr("AllBastionsFailed")
    ELSE IF w.via_bastion[p.cands[k]] = "ok"
         THEN FlowHandle("bastion", p.cands[k], p.host, p.port)
         ELSE any_bastion_from(w, p, k + 1)
via_any_bastion(w) ==
    LET p == start_url_tunnel_via_any_bastion(UrlTokens(input), w.fail)
    IN  IF p.kind = "Err" THEN FlowErr(p.err) ELSE any_bastion_from(w, p, 1)

\* main.rs try_alb_tunnel from the k-th target on: Ok(Some(tp)), Ok(None), Err(e)
RECURSIVE try_alb_tunnel(_, _)
try_alb_tunnel(w, k) ==
    IF k > Len(targets) THEN FlowNone
    ELSE LET t == targets[k]
             target_sgs == get_target_sg_ids(t)
             allowed_sgs == get_allowed_source_sgs(t, target_sgs.val, t.port)
             hop == find_ssm_hop_by_sgs(allowed_sgs.val, w.fail)
         IN  IF ~(target_sgs.ok /\ target_sgs.val # <<>>) THEN try_alb_tunnel(w, k + 1)
             ELSE IF ~(allowed_sgs.ok /\ allowed_sgs.val # <<>>)
                  THEN try_alb_tunnel(w, k + 1)
             ELSE IF hop.ok /\ hop.val # 0 THEN via_instance(w, t, hop.val)
             ELSE try_alb_tunnel(w, k + 1)

\* tunnels.rs try_alb_tunnel_bg from the k-th target on
RECURSIVE try_alb_tunnel_bg(_, _)
try_alb_tunnel_bg(w, k) ==
    IF k > Len(targets) THEN via_any_bastion(w)
    ELSE LET t == targets[k]
             target_sgs == unwrap_or_default(get_target_sg_ids(t))
             allowed == unwrap_or_default(get_allowed_source_sgs(t, target_sgs, t.port))
             hop == find_ssm_hop_by_sgs(allowed, w.fail)
         IN  IF target_sgs = <<>> THEN try_alb_tunnel_bg(w, k + 1)
             ELSE IF hop.ok /\ hop.val # 0 THEN via_instance(w, t, hop.val)
             ELSE try_alb_tunnel_bg(w, k + 1)

Flow(flow, w) == [flow |-> flow, pc |-> "alb", world |-> w, ret |-> FlowNone, out |-> FlowNone]

FlowInit ==
    /\ inv \in BoundedSeq(FlowInstances, MaxInst)
    /\ targets \in TargetLists
    /\ lb = NoLb
    /\ hs = IdleHop
    /\ input = [scheme |-> "https://", host |-> "app.internal", port |-> "", path |-> ""]
    /\ dns = NoDns
    /\ alb = NoAlb
    /\ path = NoPath
    /\ TunnelIdle
    /\ app = NewApp
    /\ chan = <<>>
    /\ workers = EmptyBag
    /\ fg = {}
    /\ reqs \in {<<Flow("cli", w), Flow("tui", w)>> : w \in Worlds}

FlowFrame == UNCHANGED <<tunnelVars, pathVars, hopVars, app, chan, workers, fg>>
FlowEnded == reqs # <<>> /\ \A r \in DOMAIN reqs : reqs[r].pc = "done"

\* run_cli: the call of try_alb_tunnel
CliTryAlb(r) ==
    /\ reqs[r].flow = "cli"
    /\ reqs[r].pc = "alb"
    /\ reqs' = [reqs EXCEPT ![r].pc = "match",
                            ![r].ret = try_alb_tunnel(reqs[r].world, 1)]
    /\ FlowFrame

\* run_cli: Ok(Some(tp)) is the tunnel; `_` goes to the bastions
CliMatch(r) ==
    /\ reqs[r].flow = "cli"
    /\ reqs[r].pc = "match"
    /\ reqs' = IF reqs[r].ret.kind = "Handle"
               THEN [reqs EXCEPT ![r].pc = "done", ![r].out = reqs[r].ret]
               ELSE [reqs EXCEPT ![r].pc = "done",
                         ![r].out = via_any_bastion(reqs[r].world)]
    /\ FlowFrame

\* the thread of the URL wizard: try_alb_tunnel_bg, whose result is sent
TuiTryAlbBg(r) ==
    /\ reqs[r].flow = "tui"
    /\ reqs[r].pc = "alb"
    /\ reqs' = [reqs EXCEPT ![r].pc = "done",
                            ![r].out = try_alb_tunnel_bg(reqs[r].world, 1)]
    /\ FlowFrame

FlowNext ==
    \/ \E r \in DOMAIN reqs : CliTryAlb(r)
    \/ \E r \in DOMAIN reqs : CliMatch(r)
    \/ \E r \in DOMAIN reqs : TuiTryAlbBg(r)

SpecFlows == FlowInit /\ [][FlowNext]_vars

\* C29 (as claimed): once both flows have ended they have the same outcome,
\* a handle through the same relay to the same target and port, or a
\* failure both.
C29_SameOutcomeCliAndTui ==
    FlowEnded =>
        /\ reqs[1].out.kind = reqs[2].out.kind
        /\ reqs[1].out.kind = "Handle" =>
             /\ reqs[1].out.via = reqs[2].out.via
             /\ reqs[1].out.relay = reqs[2].out.relay
             /\ reqs[1].out.host = reqs[2].out.host
             /\ reqs[1].out.port = reqs[2].out.port

(***************************************************************************)
(* The stop dialog over a list that changes while it is open. Two plugins  *)
(* of sessions to different instances were left behind on the same local   *)
(* port; their aws parents are gone, so each may exit at any time.         *)
(***************************************************************************)
DialogProcs ==
    {PluginOf(make_ssm_cmd(1, inst, NoHost, 8080, 8000), 1 + inst, TRUE) :
        inst \in 1..MaxInst}

DialogInit ==
    /\ procs \in SUBSET DialogProcs
    /\ listener \in [LPorts -> {Free} \cup Pids(procs)]
    /\ nextPid = MaxInst + 2
    /\ op = IdleOp
    /\ attempts = <<>>
    /\ result = NoResult
    /\ detected = NotDetected
    /\ fresh = FALSE
    /\ PathIdle
    /\ HopIdle
    /\ app = NewApp
    /\ chan = <<>>
    /\ workers = SetToBag({DetectWorker})
    /\ fg = {}
    /\ reqs = <<>>

SpecDialog == DialogInit /\ [][StopNext]_vars

\* the step is Enter on Yes of a stop dialog that stopped a tunnel
C30_ConfirmedStop ==
    /\ app.popup.kind = "Confirm"
    /\ app.popup.tag = "StopTunnel"
    /\ app'.popup = NoPopup
    /\ app'.tunnels # app.tunnels \/ procs' # procs

\* C30 (as claimed): the confirmed stop of a tunnel signals the process of a
\* tunnel of the list that has the local port and the instance the dialog
\* named when it was opened, and removes that tunnel from the list, whatever
\* was applied to the list while the dialog was open.
C30_ConfirmStopsNamedTunnel ==
    [][C30_ConfirmedStop =>
          \E k \in DOMAIN app.tunnels :
              /\ NameOf(app.tunnels[k]) = app.popup.named
              /\ app'.tunnels = RemoveAt(app.tunnels, k)
              /\ procs' = stop_tunnel(app.tunnels[k].pid, procs)]_vars

(***************************************************************************)
(* The tunnel list and its selection under starts, re-detections and       *)
(* stops.                                                                  *)
(***************************************************************************)
\* C31 (as claimed): the tunnel list of the App never holds two handles for
\* the same local port, whatever the order in which starts, re-detections
\* and stops are applied.
C31_OneHandlePerLocalPort ==
    \A i, j \in DOMAIN app.tunnels :
        app.tunnels[i].local_port = app.tunnels[j].local_port => i = j

(***************************************************************************)
(* tui/pages/tools.rs: Switch AWS Region. handle_input sets                *)
(* AWS_DEFAULT_REGION for the process and calls refresh_instances; from    *)
(* then on the aws CLI reaches the instances of the other region, so inv   *)
(* becomes another account. The queries of this part succeed.              *)
(***************************************************************************)
\* the inventories of the regions: those of Accounts and a region with two
\* web servers
WebFarm ==
    <<[name |-> <<"web">>, state |-> "running", ping |-> "Online", private_ip |-> NoIp,
       public_ip |-> NoIp, sgs |-> {}],
      [name |-> <<"web">>, state |-> "running", ping |-> "Online", private_ip |-> NoIp,
       public_ip |-> NoIp, sgs |-> {}]>>
Regions == Accounts \cup {WebFarm}

\* Enter with the cursor on "Switch AWS Region": the Input popup
ToolSwitchRegionAsk ==
    /\ NoPopupOpen
    /\ app' = [app EXCEPT !.popup = Popup("Input", "SwitchRegion", 0)]
    /\ fg' = {}
    /\ UNCHANGED <<inv, chan, workers>>
    /\ InstFrame

\* Enter on that popup: an empty value does nothing, another region is set
\* and the instances are refreshed
ToolSwitchRegion(empty) ==
    /\ app.popup.kind = "Input"
    /\ app.popup.tag = "SwitchRegion"
    /\ app' = [app EXCEPT !.popup = NoPopup]
    /\ IF empty
       THEN UNCHANGED <<inv, workers>>
       ELSE /\ CanSpawn
            /\ inv' \in Regions \ {inv}
            /\ workers' = refresh_instances(workers)
    /\ fg' = {}
    /\ UNCHANGED chan
    /\ InstFrame

SwitchNext ==
    \/ \E w \in BagToSet(workers) : InstancesScan(w, "none")
    \/ \E w \in BagToSet(workers) : InstancesSend(w)
    \/ \E w \in BagToSet(workers) : DetectScan(w)
    \/ \E w \in BagToSet(workers) : DetectSend(w)
    \/ PollBg
    \/ KeyClose
    \/ KeyInstRefresh
    \/ ToolSwitchRegionAsk
    \/ \E empty \in BOOLEAN : ToolSwitchRegion(empty)

SpecSwitch == InstInit /\ [][SwitchNext]_vars

\* no refresh of the instances is in flight: no thread of one is alive and
\* no result of one waits in the channel
NoRefreshInFlight ==
    /\ \A w \in BagToSet(workers) : w.job # "instances"
    /\ \A k \in DOMAIN chan : chan[k].kind # "InstancesLoaded"

\* C32 (as claimed): once every refresh requested has completed, the list
\* the App holds is the result of the refresh requested last, the instances
\* of the region set last, whatever order the results arrived in.
C32_LastRequestedRefreshWins ==
    NoRefreshInFlight => app.instances = list_instances("none").val

\* C33: tunnel_selected is 0 when the tunnel list is empty and an index of
\* the list otherwise, after any keys, confirmations and messages.
C33_TunnelSelectionValid ==
    IF app.tunnels = <<>> THEN app.tunnel_selected = 0
    ELSE app.tunnel_selected < Len(app.tunnels)

\* the selection sits on the last of several tunnels while a relay outside the list is alive
C33_Witness ==
    /\ app.tunnels # <<>>
    /\ app.tunnel_selected = Len(app.tunnels) - 1
    /\ app.tunnel_selected > 0
    /\ \E p \in procs : p.pid \notin HandlePids(app.tunnels) /\ HasMarker(p)

(***************************************************************************)
(* The Instances page with a filter across refreshes: the keys of           *)
(* instances.rs handle_key, the refresh threads and the region switch,      *)
(* after which the refresh brings another region's instances.               *)
(***************************************************************************)
FilterNext ==
    \/ \E w \in BagToSet(workers) : InstancesScan(w, "none")
    \/ \E w \in BagToSet(workers) : InstancesSend(w)
    \/ \E w \in BagToSet(workers), ok \in BOOLEAN : ActionRun(w, ok)
    \/ \E w \in BagToSet(workers) : DetectScan(w)
    \/ \E w \in BagToSet(workers) : DetectSend(w)
    \/ PollBg
    \/ KeyClose
    \/ \E key \in {"Esc", "Enter", "Backspace", "Char"}, c \in FilterKeys :
           KeyFilterEdit(key, c)
    \/ \E key \in {"Up", "Down", "g", "G", "/", "Esc"} : KeyInstMove(key)
    \/ KeyInstRefresh
    \/ KeyInstStart
    \/ \E force \in BOOLEAN : KeyInstStop(force)
    \/ ToolSwitchRegionAsk
    \/ \E empty \in BOOLEAN : ToolSwitchRegion(empty)

SpecFilter == InstInit /\ [][FilterNext]_vars

\* C34 (as claimed): whenever the filtered list is not empty,
\* instance_selected is an index of it, so that selected_instance gives the
\* instance a start, stop or force-stop acts on.
C34_InstanceSelectionValid ==
    filtered_instances(app) # <<>> =>
        /\ app.instance_selected < Len(filtered_instances(app))
        /\ selected_instance(app) # <<>>

(***************************************************************************)
(* main.rs handle_global_key, with the handlers of the pages it passes a   *)
(* key, a submitted input or a confirmation to.  A text is the sequence of *)
(* its characters.  Each handler gives the App it leaves, the threads it   *)
(* spawns, the processes it stops and the functions it called.  The menu   *)
(* cursors tool_selected and vpn_selected are not part of the App here:    *)
(* Enter on the Tools page runs the item `pick`.                           *)
(***************************************************************************)
TabOrder == <<"Instances", "Tunnels", "Tools", "Vpn">>
TAB_COUNT == 4
index(tab) == CHOOSE i \in 0..(TAB_COUNT - 1) : TabOrder[i + 1] = tab
from_index(i) == IF i \in 1..(TAB_COUNT - 1) THEN TabOrder[i + 1] ELSE "Instances"
next(tab) == from_index((index(tab) + 1) % TAB_COUNT)
prev(tab) == from_index((index(tab) + TAB_COUNT - 1) % TAB_COUNT)

\* the values the wizards put in a port field before the user types
Prefilled8000 == <<"8", "0", "0", "0">>
Prefilled8080 == <<"8", "0", "8", "0">>
Prefilled8501 == <<"8", "5", "0", "1">>
\* the texts an input field holds: nothing, a prefilled value, or one typed
\* character
TypedChars == {"8", "x"}
Texts ==
    {<<>>, Prefilled8000, Prefilled8080, Prefilled8501} \cup {<<c>> : c \in TypedChars}
\* the profiles of list_profiles
Profiles == <<<<"d">>, <<"p">>>>

\* str::parse::<u16>(): Some(n) or None
parse_u16(s) ==
    LET v == IF s = <<>> THEN -1 ELSE Decimal(s, 0)
    IN  IF v < 0 \/ v > 65535 THEN <<>> ELSE <<v>>
\* Option::unwrap_or
unwrap_or(o, dflt) == IF o = <<>> THEN dflt ELSE o[1]

InputPopup(tag, value) == [Popup("Input", tag, 0) EXCEPT !.value = value]

\* the thread a wizard's last step spawns, with the arguments of its start
WizardWorker(job, arguments) ==
    [job |-> job, pc |-> "run", lport |-> 0, rport |-> 0, pid |-> 0, snap |-> <<>>,
     args |-> arguments]
\* the thread of a Tools item that reports with ActionDone
ToolWorker(job) ==
    [job |-> job, pc |-> "run", lport |-> 0, rport |-> 0, pid |-> 0, snap |-> <<>>,
     args |-> <<>>]

\* what a handler leaves: the App, the threads spawned, the stop it made
\* (<<>>, <<"one", pid>> or <<"all">>) and the functions it called
Res(a, sp, st, calls) == [app |-> a, spawn |-> sp, stop |-> st, calls |-> calls]
Same(a) == Res(a, <<>>, <<>>, {})

\* tunnels.rs start_wizard_by_instance, start_wizard_by_url,
\* start_wizard_by_bastion
start_wizard(a, tag) ==
    [a EXCEPT !.wizard_buf = NoWizardBuf, !.popup = InputPopup(tag, <<>>)]

\* tunnels.rs handle_key
tunnels_handle_key(a, key) ==
    LET count == Len(a.tunnels) IN
    CASE key \in {"Up", "k"} ->
           Same([a EXCEPT !.tunnel_selected = IF @ > 0 THEN @ - 1 ELSE @])
      [] key \in {"Down", "j"} ->
           Same([a EXCEPT !.tunnel_selected = IF @ + 1 < count THEN @ + 1 ELSE @])
      [] key = "r" -> Res(a, <<DetectWorker>>, <<>>, {})
      [] key = "n" -> Same(start_wizard(a, "NewTunnelPattern"))
      [] key = "u" -> Same(start_wizard(a, "NewTunnelUrl"))
      [] key = "b" -> Same(start_wizard(a, "NewTunnelBastionPattern"))
      [] key \in {"d", "Delete"} ->
           Same(IF get(a.tunnels, a.tunnel_selected) # <<>>
                THEN [a EXCEPT !.popup =
                         [Popup("Confirm", "StopTunnel", a.tunnel_selected) EXCEPT
                             !.named = NameOf(a.tunnels[a.tunnel_selected + 1])]]
                ELSE a)
      [] key = "A" ->
           Same(IF a.tunnels # <<>>
                THEN [a EXCEPT !.popup = Popup("Confirm", "StopAllTunnels", 0)]
                ELSE a)
      [] OTHER -> Same(a)

\* tunnels.rs handle_input: the steps of the three wizards
tunnels_handle_input(a, tag, value) ==
    LET buf == a.wizard_buf
        Step(field, nexttag, prefilled) ==
            Same([a EXCEPT !.wizard_buf[field] = value,
                           !.popup = InputPopup(nexttag, prefilled)])
        Launch(job, arguments) ==
            Res([a EXCEPT !.wizard_buf.remote_port = value,
                          !.popup = Popup("Loading", "", 0)],
                <<WizardWorker(job, arguments)>>, <<>>, {})
    IN
    CASE tag = "NewTunnelPattern" -> Step("pattern", "NewTunnelLocalPort", <<>>)
      [] tag = "NewTunnelLocalPort" ->
           Step("local_port", "NewTunnelRemotePort", Prefilled8000)
      [] tag = "NewTunnelRemotePort" ->
           Launch("start_tunnel_by_pattern",
                  [pattern |-> buf.pattern,
                   local_port |-> unwrap_or(parse_u16(buf.local_port), 18000),
                   remote_port |-> unwrap_or(parse_u16(value), 8000)])
      [] tag = "NewTunnelUrl" -> Step("url", "NewTunnelUrlLocalPort", Prefilled8080)
      [] tag = "NewTunnelUrlLocalPort" ->
           Step("local_port", "NewTunnelUrlRemotePort", <<>>)
      [] tag = "NewTunnelUrlRemotePort" ->
           Launch("try_alb_tunnel_bg",
                  [url |-> buf.url,
                   local_port |-> unwrap_or(parse_u16(buf.local_port), 8080),
                   remote_port |-> parse_u16(value)])
      [] tag = "NewTunnelBastionPattern" ->
           Step("bastion", "NewTunnelBastionHost", <<>>)
      [] tag = "NewTunnelBastionHost" ->
           Step("host", "NewTunnelBastionLocalPort", Prefilled8501)
      [] tag = "NewTunnelBastionLocalPort" ->
           Step("local_port", "NewTunnelBastionRemotePort", Prefilled8501)
      [] tag = "NewTunnelBastionRemotePort" ->
           Launch("start_remote_tunnel_via_pattern",
                  [bastion |-> buf.bastion, host |-> buf.host,
                   local_port |-> unwrap_or(parse_u16(buf.local_port), 8501),
                   remote_port |-> unwrap_or(parse_u16(value), 8501)])
      [] OTHER -> Same(a)

\* tunnels.rs handle_confirm
tunnels_handle_confirm(a, popup, confirmed) ==
    LET t == get(a.tunnels, popup.idx) IN
    IF ~confirmed THEN Same(a)
    ELSE IF popup.tag = "StopTunnel"
    THEN IF t # <<>>
         THEN Res([a EXCEPT !.tunnels = remove(a.tunnels, popup.idx),
                            !.tunnel_selected =
                                Min(@, saturating_sub(Len(a.tunnels) - 1, 1))],
                  <<>>, <<"one", t[1].pid>>, {"stop_tunnel"})
         ELSE Same(a)
    ELSE Res([a EXCEPT !.tunnels = <<>>, !.tunnel_selected = 0],
             <<>>, <<"all">>, {"stop_all_tunnels"})

\* instances.rs handle_key
instances_handle_key(a, key) ==
    LET count == Len(filtered_instances(a))
        inst == selected_instance(a)
        Ask(tag) == Same(IF inst # <<>>
                         THEN [a EXCEPT !.popup = Popup("Confirm", tag, 0)] ELSE a)
    IN
    IF a.instance_filter_active
    THEN CASE key = "Esc" ->
                Same([a EXCEPT !.instance_filter_active = FALSE,
                               !.instance_filter = <<>>])
           [] key = "Enter" -> Same([a EXCEPT !.instance_filter_active = FALSE])
           [] key = "Backspace" ->
                Same([a EXCEPT !.instance_filter =
                         IF @ = <<>> THEN @ ELSE SubSeq(@, 1, Len(@) - 1)])
           [] Len(key) = 1 ->
                Same([a EXCEPT !.instance_filter = Append(@, key),
                               !.instance_selected = 0])
           [] OTHER -> Same(a)
    ELSE CASE key \in {"Up", "k"} ->
                Same([a EXCEPT !.instance_selected = IF @ > 0 THEN @ - 1 ELSE @])
           [] key \in {"Down", "j"} ->
                Same([a EXCEPT !.instance_selected = IF @ + 1 < count THEN @ + 1 ELSE @])
           [] key = "g" -> Same([a EXCEPT !.instance_selected = 0])
           [] key = "G" -> Same([a EXCEPT !.instance_selected = saturating_sub(count, 1)])
           [] key = "r" -> Res(a, <<InstWorker>>, <<>>, {})
           [] key = "/" ->
                Same([a EXCEPT !.instance_filter_active = TRUE,
                               !.instance_filter = <<>>])
           [] key = "Esc" -> Same([a EXCEPT !.instance_filter = <<>>])
           [] key = "s" ->
                IF inst # <<>>
                THEN Res(a, <<ActionWorker("start_instance", inst[1].id)>>, <<>>, {})
                ELSE Same(a)
           [] key = "S" -> Ask("StopInstance")
           [] key = "f" -> Ask("ForceStopInstance")
           [] OTHER -> Same(a)

\* instances.rs handle_confirm
instances_handle_confirm(a, popup, confirmed) ==
    LET inst == selected_instance(a) IN
    IF confirmed /\ inst # <<>>
    THEN Res(a, <<ActionWorker("stop_instance", inst[1].id)>>, <<>>, {})
    ELSE Same(a)

\* tools.rs handle_key: Up and Down move tool_selected, Enter is execute_tool
\* on the item the cursor is on
tools_handle_key(a, key, pick) ==
    IF key # "Enter" THEN Same(a)
    ELSE CASE pick = 0 ->
                Same([a EXCEPT !.popup = Popup("Select", "SwitchProfile", 0)])
           [] pick = 3 -> Same([a EXCEPT !.popup = InputPopup("ResolveUrl", <<>>)])
           [] pick = 4 -> Same([a EXCEPT !.popup = InputPopup("TestPort", <<>>)])
           [] pick = 5 ->
                Res([a EXCEPT !.popup = Popup("Result", "", 0)],
                    <<DetectWorker>>, <<"all">>, {"stop_all_tunnels"})
           [] OTHER -> Same(a)

\* tools.rs handle_input
tools_handle_input(a, tag, value) ==
    CASE tag = "SwitchProfile" ->
           IF value = <<>> THEN Same(a) ELSE Res(a, <<InstWorker>>, <<>>, {})
      [] tag = "ResolveUrl" ->
           Res([a EXCEPT !.popup = Popup("Loading", "", 0)],
               <<ToolWorker("resolve_dns_report")>>, <<>>, {})
      [] tag = "TestPort" ->
           Res([a EXCEPT !.popup = Popup("Result", "", 0)], <<>>, <<>>, {"test_port"})
      [] OTHER -> Same(a)

\* vpn.rs handle_key: Up, Down and 'r' write vpn_selected and vpn_status
vpn_handle_key(a, key) == Same(a)

WizardTags ==
    {"NewTunnelPattern", "NewTunnelLocalPort", "NewTunnelRemotePort",
     "NewTunnelUrl", "NewTunnelUrlLocalPort", "NewTunnelUrlRemotePort",
     "NewTunnelBastionPattern", "NewTunnelBastionHost",
     "NewTunnelBastionLocalPort", "NewTunnelBastionRemotePort"}

Called(r, f) == [r EXCEPT !.calls = @ \cup {f}]

\* main.rs dispatch_input
dispatch_input(a, tag, value) ==
    IF tag \in WizardTags
    THEN Called(tunnels_handle_input(a, tag, value), "tunnels::handle_input")
    ELSE Called(tools_handle_input(a, tag, value), "tools::handle_input")

\* main.rs dispatch_confirm
dispatch_confirm(a, popup, confirmed) ==
    IF popup.tag \in {"StopTunnel", "StopAllTunnels"}
    THEN Called(tunnels_handle_confirm(a, popup, confirmed), "tunnels::handle_confirm")
    ELSE Called(instances_handle_confirm(a, popup, confirmed),
                "instances::handle_confirm")

\* handle_global_key, the match on the popup: what the arm of the open popup
\* does with the key. selected_yes is the side of the Confirm popup the
\* toggles left the cursor on.
popup_key(a, key, selected_yes) ==
    LET p == a.popup
        closed == [a EXCEPT !.popup = NoPopup]
    IN
    CASE p.kind = "Help" ->
           Same(IF key \in {"Esc", "q", "?"} THEN closed ELSE a)
      [] p.kind = "Input" ->
           CASE key = "Esc" -> Same(closed)
             [] key = "Enter" -> dispatch_input(closed, p.tag, p.value)
             [] key = "Backspace" ->
                  Same([a EXCEPT !.popup.value =
                           IF @ = <<>> THEN @ ELSE SubSeq(@, 1, Len(@) - 1)])
             [] Len(key) = 1 -> Same([a EXCEPT !.popup.value = Append(@, key)])
             [] OTHER -> Same(a)
      [] p.kind = "Confirm" ->
           CASE key = "Esc" -> Same(closed)
             [] key = "Enter" -> dispatch_confirm(closed, p, selected_yes)
             [] OTHER -> Same(a)
      [] p.kind = "Select" ->
           CASE key = "Esc" -> Same(closed)
             [] key \in {"Up", "k"} ->
                  Same([a EXCEPT !.popup.idx = IF @ > 0 THEN @ - 1 ELSE @])
             [] key \in {"Down", "j"} ->
                  Same([a EXCEPT !.popup.idx =
                           IF @ + 1 < Len(Profiles) THEN @ + 1 ELSE @])
             [] key = "Enter" ->
                  LET item == get(Profiles, p.idx)
                  IN  dispatch_input(closed, p.tag,
                                     IF item = <<>> THEN <<>> ELSE item[1])
             [] OTHER -> Same(a)
      [] p.kind \in {"Result", "Loading"} ->
           Same(IF key \in {"Esc", "Enter"} THEN closed ELSE a)
      [] OTHER -> Same(a)

\* handle_global_key, the global keys and the page of the active tab
global_key(a, key, pick) ==
    CASE key \in {"Ctrl-c", "q"} -> Same([a EXCEPT !.quit = TRUE])
      [] key = "?" -> Same([a EXCEPT !.popup = Popup("Help", "", 0)])
      [] key = "Tab" -> Same([a EXCEPT !.tab = next(@)])
      [] key = "BackTab" -> Same([a EXCEPT !.tab = prev(@)])
      [] OTHER ->
           CASE a.tab = "Instances" ->
                  Called(instances_handle_key(a, key), "instances::handle_key")
             [] a.tab = "Tunnels" ->
                  Called(tunnels_handle_key(a, key), "tunnels::handle_key")
             [] a.tab = "Tools" ->
                  Called(tools_handle_key(a, key, pick), "tools::handle_key")
             [] OTHER -> Called(vpn_handle_key(a, key), "vpn::handle_key")

\* every arm of an open popup returns
handle_global_key_helpfalls(a, key, pick, selected_yes) ==
    LET r == popup_key(a, key, selected_yes) IN
    IF a.popup.kind \notin {"None", "Help"} THEN r
    ELSE LET g == global_key(r.app, key, pick)
         IN  Res(g.app, r.spawn \o g.spawn, g.stop, r.calls \cup g.calls)
handle_global_key(a, key, pick, selected_yes) ==
    IF a.popup.kind # "None" THEN popup_key(a, key, selected_yes)
    ELSE global_key(a, key, pick)

\* the keys pressed where the routing of a key is looked at, and where the
\* wizards are
RoutingKeys ==
    {"Esc", "Enter", "Tab", "BackTab", "Down", "q", "?", "x", "n", "S"}
WizardKeys == {"Esc", "Enter", "8", "x", "n", "u", "b"}
ToolItems == {0, 3, 4, 5}
PageKeyHandlers ==
    {"instances::handle_key", "tunnels::handle_key", "tools::handle_key",
     "vpn::handle_key"}

RECURSIVE SpawnAll(_, _)
SpawnAll(ws, sp) == IF sp = <<>> THEN ws ELSE SpawnAll(spawn(ws, Head(sp)), Tail(sp))

\* a key press, while the loop of run_tui runs. The texts stay within Texts,
\* a handler spawns its thread when no other thread runs and no message
\* waits, and Enter on the VPN page, which runs the VPN actions, is not
\* among the key presses.
HandleGlobalKey(key, pick, selected_yes) ==
    /\ ~app.quit
    /\ ~(NoPopupOpen /\ app.tab = "Vpn" /\ key = "Enter")
    /\ LET r == handle_global_key(app, key, pick, selected_yes) IN
       /\ r.app.popup.value \in Texts
       /\ r.app.instance_filter \in Texts
       /\ r.spawn # <<>> => workers = EmptyBag /\ chan = <<>> /\ Len(r.spawn) = 1
       /\ app' = r.app
       /\ workers' = SpawnAll(workers, r.spawn)
       /\ procs' = CASE r.stop = <<>> -> procs
                     [] r.stop[1] = "all" -> stop_all_tunnels(procs)
                     [] OTHER -> stop_tunnel(r.stop[2], procs)
       /\ listener' = Listeners(procs')
       /\ fg' = r.calls
    /\ UNCHANGED <<nextPid, opVars, pathVars, hopVars, chan, reqs>>

\* the thread of a wizard or of a Tools item ends and sends its result. The
\* texts typed here name no instance and no host of the account, so that a
\* wizard's start ends with an error.
BgRun(w, ok) ==
    /\ w.job \in {"start_tunnel_by_pattern", "try_alb_tunnel_bg",
                  "start_remote_tunnel_via_pattern", "resolve_dns_report"}
    /\ w.job # "resolve_dns_report" => ~ok
    /\ chan' = Append(chan, IF w.job = "resolve_dns_report" THEN ActionDone(ok)
                            ELSE TunnelStarted(FALSE, NoHandle))
    /\ workers' = exit(workers, w)
    /\ UNCHANGED <<procs, listener, nextPid, app, fg>>
    /\ AppFrame

\* the item under the cursor and the side of the Confirm popup matter to
\* Enter only
PickedItems(key) ==
    IF key = "Enter" /\ NoPopupOpen /\ app.tab = "Tools" THEN ToolItems ELSE {0}
Sides(key) ==
    IF key = "Enter" /\ app.popup.kind = "Confirm" THEN BOOLEAN ELSE {FALSE}

KeysNext ==
    \/ \E key \in RoutingKeys :
           \E pick \in PickedItems(key), selected_yes \in Sides(key) :
               HandleGlobalKey(key, pick, selected_yes)
    \/ \E w \in BagToSet(workers), ok \in BOOLEAN : BgRun(w, ok)
    \/ \E w \in BagToSet(workers), ok \in BOOLEAN : ActionRun(w, ok)
    \/ \E w \in BagToSet(workers) : InstancesScan(w, "none")
    \/ \E w \in BagToSet(workers) : InstancesSend(w)
    \/ \E w \in BagToSet(workers) : DetectScan(w)
    \/ \E w \in BagToSet(workers) : DetectSend(w)
    \/ PollBg

\* run_tui with the instances of an account whose two instances run
KeysInit == InstInit /\ \A i \in DOMAIN inv : inv[i].state = "running"

SpecKeys == KeysInit /\ [][KeysNext]_vars

KeyStep ==
    \E key \in RoutingKeys :
        \E pick \in PickedItems(key), selected_yes \in Sides(key) :
            HandleGlobalKey(key, pick, selected_yes)

\* C35: while a popup is open a key press leaves the active tab and the quit
\* flag as they are and is passed to no page's handle_key; a page's
\* handle_key gets a key only when no popup is open.
C35_PopupTakesEveryKey ==
    [][KeyStep =>
          /\ ~NoPopupOpen =>
                /\ app'.tab = app.tab
                /\ app'.quit = app.quit
                /\ fg' \cap PageKeyHandlers = {}
          /\ fg' \cap PageKeyHandlers # {} => NoPopupOpen]_vars

\* a key typed into the first step of a wizard and Enter, both taken by the
\* popup: the second step is open on the Tunnels tab
C35_Witness ==
    /\ app.popup.kind = "Input"
    /\ app.popup.tag = "NewTunnelLocalPort"
    /\ app.wizard_buf.pattern = <<"x">>
    /\ fg = {"tunnels::handle_input"}
    /\ app.tab = "Tunnels"
    /\ ~app.quit

(***************************************************************************)
(* The three wizards of the Tunnels page alone: the Tunnels tab is active, *)
(* no instance and no tunnel is listed, no thread runs.                    *)
(***************************************************************************)
WizardInit ==
    /\ TunnelIdle
    /\ PathIdle
    /\ HopIdle
    /\ app = [NewApp EXCEPT !.tab = "Tunnels"]
    /\ chan = <<>>
    /\ workers = EmptyBag
    /\ fg = {}
    /\ reqs = <<>>

WizardNext ==
    \/ \E key \in WizardKeys : HandleGlobalKey(key, 0, FALSE)
    \/ \E w \in BagToSet(workers) : BgRun(w, FALSE)
    \/ PollBg

SpecWizard == WizardInit /\ [][WizardNext]_vars

FirstTags == {"NewTunnelPattern", "NewTunnelUrl", "NewTunnelBastionPattern"}
FinalTags ==
    {"NewTunnelRemotePort", "NewTunnelUrlRemotePort", "NewTunnelBastionRemotePort"}
WizardJobs ==
    {"start_tunnel_by_pattern", "try_alb_tunnel_bg", "start_remote_tunnel_via_pattern"}
\* the job of each wizard, by the tag of its last step
JobOf(tag) ==
    CASE tag = "NewTunnelRemotePort" -> "start_tunnel_by_pattern"
      [] tag = "NewTunnelUrlRemotePort" -> "try_alb_tunnel_bg"
      [] OTHER -> "start_remote_tunnel_via_pattern"
\* the field of wizard_buf a step that is not the last fills
FieldOf(tag) ==
    CASE tag = "NewTunnelPattern" -> "pattern"
      [] tag = "NewTunnelUrl" -> "url"
      [] tag = "NewTunnelBastionPattern" -> "bastion"
      [] tag = "NewTunnelBastionHost" -> "host"
      [] OTHER -> "local_port"

\* the decimal text of a number
DigitChar(d) == CHOOSE c \in {"0", "1", "2", "3", "4", "5", "6", "7", "8", "9"} : Digit(c) = d
RECURSIVE ToText(_)
ToText(n) == IF n < 10 THEN <<DigitChar(n)>> ELSE Append(ToText(n \div 10), DigitChar(n % 10))

\* the port a start was given is the port typed; a field left empty stands
\* for the wizard's default
IsEntered(text, port) == text # <<>> => ToText(port) = text

\* the threads of wizard starts that are in workers' and were not in workers
Launched ==
    {w \in BagToSet(workers') :
        w.job \in WizardJobs /\ CopiesIn(w, workers') > CopiesIn(w, workers)}

\* C36 (as claimed): a wizard's start is launched only by the step that
\* submits the last input of the wizard, once, with the pattern, URL, host
\* and ports typed at the steps of that run; every earlier step keeps what
\* was typed for the last one, a wizard begins with nothing kept, and a
\* step that closes the popup launches nothing.
C36_WizardLaunchesWhatWasEntered ==
    [][/\ \A w \in Launched :
            /\ app.popup.kind = "Input"
            /\ app.popup.tag \in FinalTags
            /\ w.job = JobOf(app.popup.tag)
            /\ BagCardinality(workers') = BagCardinality(workers) + 1
            /\ IsEntered(app.wizard_buf.local_port, w.args.local_port)
            /\ CASE w.job = "start_tunnel_by_pattern" ->
                      /\ w.args.pattern = app.wizard_buf.pattern
                      /\ IsEntered(app.popup.value, w.args.remote_port)
                 [] w.job = "try_alb_tunnel_bg" ->
                      /\ w.args.url = app.wizard_buf.url
                      /\ IF app.popup.value = <<>> THEN w.args.remote_port = <<>>
                         ELSE /\ w.args.remote_port # <<>>
                              /\ ToText(w.args.remote_port[1]) = app.popup.value
                 [] OTHER ->
                      /\ w.args.bastion = app.wizard_buf.bastion
                      /\ w.args.host = app.wizard_buf.host
                      /\ IsEntered(app.popup.value, w.args.remote_port)
       /\ (NoPopupOpen /\ app'.popup.tag \in FirstTags) =>
              app'.wizard_buf = NoWizardBuf
       /\ (app.popup.tag \in WizardTags \ FinalTags /\ app'.popup.tag \in WizardTags
             /\ app'.popup.tag # app.popup.tag) =>
              app'.wizard_buf =
                  [app.wizard_buf EXCEPT ![FieldOf(app.popup.tag)] = app.popup.value]
       /\ (app.popup.tag \in WizardTags /\ app'.popup.kind = "None") =>
              Launched = {}]_vars

(***************************************************************************)
(* The starts by pattern from the inventory to the handle: input is the    *)
(* pattern typed, the instance of the start operation is the one           *)
(* find_instance_by_name returns for the account's inventory, and the      *)
(* tunnel supervisor starts the tunnel to it.                              *)
(***************************************************************************)
PatternNames == {<<"web">>, <<"Bastion">>, <<"web", "Bastion">>}
Patterns == {<<>>, <<"web">>, <<"bastion">>, <<"Bastion">>, <<"db">>}
PatternInstances ==
    [name : PatternNames, state : {"running"}, ping : {"Online"}, private_ip : {NoIp},
     public_ip : {NoIp}, sgs : {{}}]

\* aws.rs find_instance_by_name
find_instance_by_name_first(pattern, fail) ==
    LET r == list_instances(fail)
        pat_lower == to_lowercase(pattern)
        matches == SelectSeq(IF r.ok THEN r.val ELSE <<>>,
                             LAMBDA i : contains_seq(to_lowercase(i.name), pat_lower))
    IN  IF ~r.ok THEN Err(r.err)
        ELSE IF Len(matches) = 0 THEN Err("NoInstance")
        ELSE Ok(matches[1])
find_instance_by_name(pattern, fail) ==
    LET r == list_instances(fail)
        pat_lower == to_lowercase(pattern)
        matches == SelectSeq(IF r.ok THEN r.val ELSE <<>>,
                             LAMBDA i : contains_seq(to_lowercase(i.name), pat_lower))
    IN  IF ~r.ok THEN Err(r.err)
        ELSE IF Len(matches) = 0 THEN Err("NoInstance")
        ELSE IF Len(matches) = 1 THEN Ok(matches[1])
        ELSE Err("MultipleInstances")

PatternInit ==
    /\ procs = {}
    /\ listener = [p \in LPorts |-> Free]
    /\ nextPid = 1
    /\ op = IdleOp
    /\ attempts = <<>>
    /\ result = NoResult
    /\ detected = NotDetected
    /\ fresh = FALSE
    /\ input \in Patterns
    /\ dns = NoDns
    /\ inv \in BoundedSeq(PatternInstances, MaxInst)
    /\ alb = NoAlb
    /\ path = NoPath
    /\ HopIdle
    /\ AppIdle

\* start_tunnel_by_pattern / start_remote_tunnel_via_pattern:
\* find_instance_by_name over the inventory, `?` on its error
ResolvePatternInv(fail) ==
    /\ op.pc = "resolve"
    /\ op.entry \in DirectEntries \cup RemoteEntries
    /\ LET r == find_instance_by_name(input, fail)
       IN  IF ~r.ok
           THEN /\ op' = [op EXCEPT !.pc = "done"]
                /\ Return(Failure(r.err, 0))
           ELSE /\ op' = [op EXCEPT !.pc = "spawn", !.mode = "single", !.idx = 1,
                                    !.cands = <<r.val.id>>,
                                    !.host = IF op.entry \in RemoteEntries
                                             THEN "h" ELSE NoHost]
                /\ UNCHANGED <<result, fresh>>
    /\ UNCHANGED <<procs, listener, nextPid, attempts, detected>>
    /\ UNCHANGED <<pathVars, hopVars, appVars>>

PatternNext ==
    \/ \E e \in DirectEntries \cup RemoteEntries, lp \in LPorts, rp \in RPorts :
           Begin(e, lp, rp)
    \/ \E fail \in {"none", "ec2", "ssm"} : ResolvePatternInv(fail)
    \/ SpawnOk
    \/ SpawnFail
    \/ WaitOpen
    \/ WaitSleep
    \/ WaitTimeout
    \/ ProbeOk
    \/ ProbeFail
    \/ EnvPluginUp
    \/ EnvOrphanExit

SpecPattern == PatternInit /\ [][PatternNext]_vars

\* the instances of the account whose name contains the pattern typed,
\* whatever the case of the letters
Matching ==
    {i \in DOMAIN inv :
        \E k \in 0..(Len(inv[i].name) - Len(input)) :
            \A j \in 1..Len(input) :
                to_lowercase(inv[i].name)[k + j] = to_lowercase(input)[j]}

\* C37: a start by pattern spawns a process only for the one instance whose
\* name contains the pattern, and the handle it returns is a tunnel to that
\* instance; it returns NoInstance only when no instance matches and
\* MultipleInstances only when two or more do, and with no or several
\* matches it ends without a process.
C37_PatternStartsUniqueMatchOnly ==
    /\ \A k \in DOMAIN attempts :
           Cardinality(Matching) = 1 /\ attempts[k].relay \in Matching
    /\ Cardinality(Matching) # 1 => procs = {} /\ result.kind # "Handle"
    /\ result.kind = "Handle" => result.h.instance_id \in Matching
    /\ (result.kind = "Err" /\ result.err = "NoInstance") => Matching = {}
    /\ (result.kind = "Err" /\ result.err = "MultipleInstances") =>
           Cardinality(Matching) >= 2
    /\ (op.pc = "done" /\ Matching = {}) =>
           result.kind = "Err" /\ result.err \in {"NoInstance", "AwsCli"}
    /\ (op.pc = "done" /\ Cardinality(Matching) >= 2) =>
           result.kind = "Err" /\ result.err \in {"MultipleInstances", "AwsCli"}

\* a tunnel came up to the instance named Bastion of an account of two
\* instances, found by the pattern bastion
C37_Witness ==
    /\ input = <<"bastion">>
    /\ Len(inv) = 2
    /\ result.kind = "Handle"
    /\ inv[result.h.instance_id].name = <<"Bastion">>

(***************************************************************************)
(* tunnel.rs extract_json_objects over the characters of a text: input is  *)
(* the text that follows the plugin's name, detected.handles the strings   *)
(* the function returned.  The positions i and start count from 0 as in    *)
(* the code; depth is a usize, so that depth -= 1 at 0 is an overflow.     *)
(***************************************************************************)
MaxChars == 4
BraceChars == {"{", "}", "a"}

Scanned(objs, underflow) == [objs |-> objs, underflow |-> underflow]

RECURSIVE scan_outer(_, _, _), scan_inner(_, _, _, _, _)
\* while i < chars.len()
scan_outer(chars, i, found) ==
    IF i >= Len(chars) THEN Scanned(found, FALSE)
    ELSE IF chars[i + 1] = "{" THEN scan_inner(chars, i, i, 0, found)
    ELSE scan_outer(chars, i + 1, found)
\* the inner while, from the opening brace at start
scan_inner(chars, start, i, depth, found) ==
    IF i >= Len(chars) THEN scan_outer(chars, i, found)
    ELSE IF chars[i + 1] = "{" THEN scan_inner(chars, start, i + 1, depth + 1, found)
    ELSE IF chars[i + 1] = "}"
    THEN IF depth = 0 THEN Scanned(found, TRUE)
         ELSE IF depth - 1 = 0
         THEN scan_outer(chars, i + 1, Append(found, SubSeq(chars, start + 1, i + 1)))
         ELSE scan_inner(chars, start, i + 1, depth - 1, found)
    ELSE scan_inner(chars, start, i + 1, depth, found)

extract_json_objects(s) == scan_outer(s, 0, <<>>)

BracesInit ==
    /\ TunnelIdle
    /\ input \in BoundedSeq(BraceChars, MaxChars)
    /\ dns = NoDns
    /\ inv = <<>>
    /\ alb = NoAlb
    /\ path = NoPath
    /\ HopIdle
    /\ AppIdle

\* parse_tunnel_line: extract_json_objects(after)
ExtractNow ==
    /\ ~detected.ran
    /\ detected' = [handles |-> extract_json_objects(input).objs, ran |-> TRUE,
                    after |-> FALSE]
    /\ UNCHANGED <<procs, listener, nextPid, op, attempts, result, fresh>>
    /\ UNCHANGED <<pathVars, hopVars, appVars>>

SpecBraces == BracesInit /\ [][ExtractNow]_vars

\* the number of opening braces less the number of closing ones in s
RECURSIVE Excess(_)
Excess(s) ==
    IF s = <<>> THEN 0
    ELSE Excess(SubSeq(s, 1, Len(s) - 1))
         + (IF s[Len(s)] = "{" THEN 1 ELSE IF s[Len(s)] = "}" THEN -1 ELSE 0)
\* s[a..b] opens with a brace that its last character closes
Delimited(s, a, b) ==
    /\ s[a] = "{"
    /\ Excess(SubSeq(s, a, b)) = 0
    /\ \A c \in a..(b - 1) : Excess(SubSeq(s, a, c)) >= 1
\* the balanced brace-delimited substrings of s that lie in no other one
MaximalSpans(s) ==
    LET spans == {sp \in (1..Len(s)) \X (1..Len(s)) :
                     sp[1] < sp[2] /\ Delimited(s, sp[1], sp[2])}
    IN  {sp \in spans : \A o \in spans : (o[1] <= sp[1] /\ sp[2] <= o[2]) => o = sp}
\* ... from left to right
RECURSIVE InOrder(_, _)
InOrder(s, spans) ==
    IF spans = {} THEN <<>>
    ELSE LET first == CHOOSE sp \in spans : \A o \in spans : sp[1] <= o[1]
         IN  <<SubSeq(s, first[1], first[2])>> \o InOrder(s, spans \ {first})

\* C38 (as claimed): extract_json_objects ends on every text without taking
\* depth below zero, and what it returns is the maximal balanced
\* brace-delimited substrings of the text from left to right.
C38_ReturnsMaximalBalanced ==
    /\ ~extract_json_objects(input).underflow
    /\ detected.ran => detected.handles = InOrder(input, MaximalSpans(input))

====
